---- MODULE Spec2Model ----
(***************************************************************************)
(* Timeline-editing core of cutline: the view store (playhead, zoom,       *)
(* selection), the project store (authoritative snapshots), the clip       *)
(* gestures of TimelineView (move / trim / marquee) and the preview        *)
(* synchroniser of PreviewPlayer.                                          *)
(*                                                                         *)
(* Numbers.  JavaScript numbers are modelled as fixed-point integers:      *)
(*   - a time t stands for t/2 milliseconds     (Ms(n) is n ms),           *)
(*   - a length p stands for p/2000 pixels      (Px(n) is n px).           *)
(* With the three supported zoom levels msToPixels and pixelsToMs are then *)
(* exact on every pointer position that is a multiple of a tenth of a      *)
(* pixel, and Math.round has something to round (half milliseconds).       *)
(***************************************************************************)
EXTENDS Integers, Sequences, FiniteSets, TLC

VARIABLES
    \* ---- backend (the project the Tauri side holds) and the bridge
    backend,          \* None or the project: [timeline, assets]
    calls,            \* bridge calls in flight, each with the backend's answer
    pendingEvents,    \* "project:updated" events emitted and not yet handled
    \* ---- useProjectStore
    projectFile, projectDir, projectJsonPath, selectedAssetId,
    isDirty, loading, error,
    \* ---- useTimelineViewStore
    playheadMs, isPlaying, zoomLevel, scrollLeftMs, selectedClipIds,
    \* ---- ClipBlock gestures
    dragState,        \* per ClipBlock: the dragState ref
    listening,        \* the gesture whose document listeners are attached
    gestures,         \* every gesture started so far: its clip, mode, pointer-up
    elStyle,          \* per ClipBlock: the element's inline left and width
    sent,             \* every move/trim request issued, in order
    rangeStartMs, rangeEndMs,
    \* ---- TimelineView marquee
    marqueeOrigin,
    \* ---- the event listeners: _unsubscribers of projectStore, the listeners
    \* registered with the bridge, the initEventSubscriptions calls in flight
    subs,
    \* ---- PreviewPlayer
    currentClipRef, currentSrc, isBlack,
    rafPending,       \* animation-frame callbacks requested, not yet run or cancelled
    rafLive,          \* rafRef.current names one of them
    \* ---- arguments and result of a pure function applied on its own; in the
    \* preview, the last handler run and its input
    args

bridgeVars  == <<backend, calls, pendingEvents>>
projVars    == <<projectFile, projectDir, projectJsonPath, selectedAssetId,
                 isDirty, loading, error>>
playVars    == <<playheadMs, isPlaying>>
viewVars    == <<playheadMs, isPlaying, zoomLevel, scrollLeftMs, selectedClipIds>>
gestVars    == <<dragState, listening, gestures, elStyle, sent>>
rangeVars   == <<rangeStartMs, rangeEndMs>>
subVars     == <<subs>>
prevVars    == <<currentClipRef, currentSrc, isBlack, rafPending, rafLive>>
vars        == <<bridgeVars, projVars, viewVars, gestVars, marqueeOrigin,
                 rangeVars, subVars, prevVars, args>>

\* null / undefined: NULL where the value is a string, None where it is an object.
NULL == "null"
\* null where the other values are numbers
NullMs == 0 - 1
None == [none |-> TRUE]

-----------------------------------------------------------------------------
(* Fixed-point numbers                                                     *)

Ms(n) == 2 * n
Px(n) == 2000 * n

Min(a, b) == IF a <= b THEN a ELSE b
Max(a, b) == IF a >= b THEN a ELSE b
Abs(a)    == IF a >= 0 THEN a ELSE -a

\* Math.round on a time: the nearest whole millisecond, a half rounding up.
MathRound(t) == ((t + 1) \div 2) * 2

\* msToPixels(ms, zoomLevel) = (ms / 1000) * zoomLevel
MsToPixels(t, zoom) == t * zoom

\* The mutant of PixelsToMs: seconds instead of milliseconds.
PixelsToSec(p, zoom) == p \div (zoom * 1000)

\* pixelsToMs(px, zoomLevel) = (px / zoomLevel) * 1000
PixelsToMs(p, zoom) == p \div zoom

ZOOM_LEVELS == {50, 100, 200}

\* The decimal digits of a non-negative integer: String(n).
DigitChars == <<"0", "1", "2", "3", "4", "5", "6", "7", "8", "9">>

RECURSIVE Digits(_)
Digits(n) ==
    IF n < 10 THEN <<DigitChars[n + 1]>>
    ELSE Append(Digits(n \div 10), DigitChars[(n % 10) + 1])

\* s.padStart(2, "0")
PadStart2(s) == IF Len(s) < 2 THEN <<"0">> \o s ELSE s

\* The mutant of FormatMs: the time is truncated, not rounded.
FormatMsFloor(t) ==
    LET rounded  == t \div 2
        totalSec == rounded \div 1000
        minutes  == totalSec \div 60
        seconds  == totalSec % 60
        centis   == (rounded % 1000) \div 10
    IN  PadStart2(Digits(minutes)) \o <<":">> \o PadStart2(Digits(seconds))
           \o <<".">> \o PadStart2(Digits(centis))

\* formatMs(ms), for ms >= 0: the characters of the string returned.
FormatMs(t) ==
    LET rounded  == MathRound(t) \div 2
        totalSec == rounded \div 1000
        minutes  == totalSec \div 60
        seconds  == totalSec % 60
        centis   == (rounded % 1000) \div 10
    IN  PadStart2(Digits(minutes)) \o <<":">> \o PadStart2(Digits(seconds))
           \o <<".">> \o PadStart2(Digits(centis))

-----------------------------------------------------------------------------
(* Data model: clips, timelines, projects                                  *)

ClipIds  == {"v1", "v2", "a1", "b1", "c1"}
VideoTrk == "trk_v"
AudioTrk == "trk_a"

MkClip(trk, asset, start, in, out) ==
    [trackId |-> trk, assetId |-> asset, startMs |-> Ms(start),
     durationMs |-> Ms(out - in), inMs |-> Ms(in), outMs |-> Ms(out)]

ClipEnd(clip) == clip.startMs + clip.durationMs

RECURSIVE MaxEnd(_, _)
MaxEnd(clips, ids) ==
    IF ids = {} THEN 0
    ELSE LET c == CHOOSE x \in ids : TRUE
         IN  Max(ClipEnd(clips[c]), MaxEnd(clips, ids \ {c}))

\* The backend's derived duration: max over all clips of startMs + durationMs.
RecalcDuration(tl) == [tl EXCEPT !.durationMs = MaxEnd(tl.clips, DOMAIN tl.clips)]

\* keys: the clip map's key order; hasVideo: whether a track of type "video"
\* exists; video: that track's clipIds; markers: the markers' tMs, in order.
MkTimeline(keys, clips, hasVideo, video, markers) ==
    RecalcDuration([keys |-> keys, clips |-> clips, hasVideo |-> hasVideo,
                    video |-> video, markers |-> markers, durationMs |-> 0])

EmptyClips == [c \in {} |-> NULL]

\* Projects on disk.  A: two overlapping video clips and a 60 ms audio clip
\* whose end (1050 ms) lies between two grid lines; B: the scenario of the
\* end-to-end test (one clip [0,5000), a marker at 7000); C: a project whose
\* track list holds no video track.
ClipsA == [c \in {"v1", "v2", "a1"} |->
             CASE c = "v1" -> MkClip(VideoTrk, "as1", 1030, 0, 250)
               [] c = "v2" -> MkClip(VideoTrk, "as2", 1200, 100, 400)
               [] c = "a1" -> MkClip(AudioTrk, "as3", 990, 0, 60)]
ClipsB == [c \in {"b1"} |-> MkClip(VideoTrk, "as1", 0, 0, 5000)]
ClipsC == [c \in {"c1"} |-> MkClip(AudioTrk, "as3", 0, 0, 1000)]

AssetsAll == [a \in {"as1", "as2", "as3"} |-> [hasProxy |-> (a = "as1")]]

\* indexes.taskById as rebuildIndexes leaves it: the last position of each
\* taskId in the task list.
TaskById(tasks) ==
    [id \in {tasks[i].taskId : i \in DOMAIN tasks} |->
        CHOOSE i \in DOMAIN tasks :
           /\ tasks[i].taskId = id
           /\ \A j \in DOMAIN tasks : tasks[j].taskId = id => j <= i]

\* rebuildIndexes(pf)
RebuildIndexes(pf) == [pf EXCEPT !.indexes = [taskById |-> TaskById(pf.tasks)]]

MkProject(tl) ==
    [timeline |-> tl, assets |-> AssetsAll, tasks |-> <<>>,
     indexes |-> [taskById |-> TaskById(<<>>)]]

ProjectPaths == {"A", "B", "C"}

StoredProject(path) ==
    CASE path = "A" -> MkProject(MkTimeline(<<"v1", "a1", "v2">>, ClipsA,
                                            TRUE, <<"v1", "v2">>, <<Ms(1345)>>))
      [] path = "B" -> MkProject(MkTimeline(<<"b1">>, ClipsB, TRUE, <<"b1">>,
                                            <<Ms(7000)>>))
      [] path = "C" -> MkProject(MkTimeline(<<"c1">>, ClipsC, FALSE, <<>>, <<>>))

\* commands.createProject: a fresh project with an empty video track.
NewProject == MkProject(MkTimeline(<<>>, EmptyClips, TRUE, <<>>, <<>>))

-----------------------------------------------------------------------------
(* The backend behind the bridge (spec section 6)                          *)

\* An optional argument left undefined.
Undefined == 0 - 1

\* move clip(clip id, new start ms)
BackendMoveClip(b, cid, newStartMs) ==
    [b EXCEPT !.timeline =
        RecalcDuration([@ EXCEPT !.clips[cid].startMs = newStartMs])]

\* trim clip(clip id, optional new in ms, optional new out ms); durationMs is
\* always recomputed as outMs - inMs.
BackendTrimClip(b, cid, inMs, outMs) ==
    LET old   == b.timeline.clips[cid]
        newIn == IF inMs = Undefined THEN old.inMs ELSE inMs
        newOut == IF outMs = Undefined THEN old.outMs ELSE outMs
    IN  [b EXCEPT !.timeline =
            RecalcDuration([@ EXCEPT !.clips[cid] =
                [old EXCEPT !.inMs = newIn, !.outMs = newOut,
                            !.durationMs = newOut - newIn]])]

\* remove clip(clip id): the clip leaves the clip map and its track.
BackendRemoveClip(b, cid) ==
    LET tl == b.timeline
    IN  [b EXCEPT !.timeline =
            RecalcDuration([tl EXCEPT
                !.keys  = SelectSeq(tl.keys, LAMBDA k : k # cid),
                !.clips = [c \in DOMAIN tl.clips \ {cid} |-> tl.clips[c]],
                !.video = SelectSeq(tl.video, LAMBDA k : k # cid)])]

\* A request naming a clip the backend does not hold is rejected (stale
\* target, spec section 7); any request may also fail on the bridge.
HasClip(b, cid) == b # None /\ cid \in DOMAIN b.timeline.clips

-----------------------------------------------------------------------------
(* The bridge: invoke() and the "project:updated" event                    *)

\* Calls of the handlers, re-fetches of the listener and events waiting, at
\* most, at one time.
MaxInflight == 1
MaxRefresh  == 2
MaxEvents   == 1

FreeIds == {i \in 1..MaxInflight : \A c \in calls : c.id # i}
Call(id, op, ok, resp, k) == [id |-> id, op |-> op, ok |-> ok, resp |-> resp, k |-> k]

\* invoke(op, ...): the backend handles the request when it is issued; the
\* promise settles later (ok: resolves with resp, otherwise rejects), in any
\* order with respect to other calls.  k is what the awaiting code resumes with.
Invoke(op, ok, resp, k) ==
    /\ FreeIds # {}
    /\ calls' = calls \cup {Call(CHOOSE i \in FreeIds : TRUE, op, ok, resp, k)}

\* The same for a re-fetch started by the "project:updated" listener.
FreeRefreshIds ==
    {i \in (MaxInflight + 1)..(MaxInflight + MaxRefresh) : \A c \in calls : c.id # i}
InvokeRefresh(op, ok, resp, k) ==
    /\ FreeRefreshIds # {}
    /\ calls' = calls \cup {Call(CHOOSE i \in FreeRefreshIds : TRUE, op, ok, resp, k)}

\* A resumed call that awaits the next one.
InvokeNext(c, op, ok, resp, k) ==
    calls' = (calls \ {c}) \cup {Call(c.id, op, ok, resp, k)}

Settle(c) == calls' = calls \ {c}

\* The backend emits "project:updated" after a timeline mutation that
\* succeeded; at most MaxEvents of them wait to be handled.
Emit(succ) ==
    pendingEvents' = IF succ THEN Min(pendingEvents + 1, MaxEvents) ELSE pendingEvents

-----------------------------------------------------------------------------
(* useTimelineViewStore                                                    *)

\* The playhead rounded and not clamped.
SetPlayheadValueNoClamp(ms) == MathRound(ms)

\* setPlayhead: (ms) => set({ playheadMs: Math.max(0, Math.round(ms)) })
SetPlayheadValue(ms) == Max(0, MathRound(ms))

\* setScroll: (ms) => set({ scrollLeftMs: Math.max(0, ms) })
SetScrollValue(ms) == Max(0, ms)

\* The single selection that is empty for every argument.
SelectClipValueEmpty(clipId) == {}
\* selectClip: (clipId) => clipId ? new Set([clipId]) : new Set()
SelectClipValue(clipId) == IF clipId # NULL THEN {clipId} ELSE {}

\* The toggle that only ever adds.
ToggleClipValueAdd(sel, clipId) == sel \cup {clipId}
\* toggleClip: delete the id when present, add it otherwise
ToggleClipValue(sel, clipId) ==
    IF clipId \in sel THEN sel \ {clipId} ELSE sel \cup {clipId}

\* The operation that puts the ids in place of the selection.
AddClipsValueReplace(sel, clipIds) == clipIds
\* addClips: every id is added to a copy of the selection
AddClipsValue(sel, clipIds) == sel \cup clipIds

\* new Set(clipIds): the members of the array.
NewSet(clipIds) == {clipIds[i] : i \in DOMAIN clipIds}

\* selectClips: (clipIds) => set({ selectedClipIds: new Set(clipIds) })
SelectClipsValue(clipIds) == NewSet(clipIds)

\* clearSelection: () => set({ selectedClipIds: new Set() })
ClearSelectionValue == {}

\* The overlap test with both comparisons inclusive.
OverlapsInclusive(clip, lo, hi) == clip.startMs <= hi /\ ClipEnd(clip) >= lo

\* if (clip.startMs < hi && clipEnd > lo)
Overlaps(clip, lo, hi) == clip.startMs < hi /\ ClipEnd(clip) > lo

\* selectRange(startMs, endMs, clips): the ids pushed by the loop.
SelectRangeValue(startMs, endMs, clips) ==
    LET lo == Min(startMs, endMs)
        hi == Max(startMs, endMs)
    IN  {cid \in DOMAIN clips : Overlaps(clips[cid], lo, hi)}

-----------------------------------------------------------------------------
(* PreviewPlayer: resolving the clip under the playhead                    *)

\* The scan with the interval closed at its end.
RECURSIVE FindClipAtTimeClosed(_, _, _)
FindClipAtTimeClosed(clips, trackClipIds, ms) ==
    IF trackClipIds = <<>> THEN NULL
    ELSE LET cid == Head(trackClipIds)
         IN  IF cid \notin DOMAIN clips
             THEN FindClipAtTimeClosed(clips, Tail(trackClipIds), ms)
             ELSE IF ms >= clips[cid].startMs /\ ms <= ClipEnd(clips[cid])
             THEN cid
             ELSE FindClipAtTimeClosed(clips, Tail(trackClipIds), ms)

\* findClipAtTime(clips, trackClipIds, playheadMs): the loop over the track's
\* ids; an id without a clip is skipped; the first clip with
\* playheadMs >= startMs && playheadMs < startMs + durationMs is returned
\* (here: its id), null when the loop ends.
RECURSIVE FindClipAtTime(_, _, _)
FindClipAtTime(clips, trackClipIds, ms) ==
    IF trackClipIds = <<>> THEN NULL
    ELSE LET cid == Head(trackClipIds)
         IN  IF cid \notin DOMAIN clips
             THEN FindClipAtTime(clips, Tail(trackClipIds), ms)
             ELSE IF ms >= clips[cid].startMs /\ ms < ClipEnd(clips[cid])
             THEN cid
             ELSE FindClipAtTime(clips, Tail(trackClipIds), ms)

NoSrc == <<>>
\* The URL of the original, whatever is preferred.
GetAssetMediaUrlOriginal(assetId, preferProxy) == <<assetId, FALSE>>

\* getAssetMediaUrl(assetId, preferProxy):
\* media://localhost/<assetId>, with ?proxy=1 when the proxy is preferred
GetAssetMediaUrl(assetId, preferProxy) == <<assetId, preferProxy>>

Preview == [ref |-> currentClipRef, src |-> currentSrc, black |-> isBlack]

\* syncVideoToPlayhead(ms) with the project pf of the render that made the
\* callback, from the preview state pv: the preview state it leaves.
SyncVideoToPlayhead(ms, pf, pv) ==
    IF pf = None \/ ~pf.timeline.hasVideo THEN pv
    ELSE LET cid == FindClipAtTime(pf.timeline.clips, pf.timeline.video, ms)
         IN  IF cid = NULL
             THEN [black |-> TRUE, ref |-> NULL,
                   src |-> IF pv.ref # NULL THEN NoSrc ELSE pv.src]
             ELSE [black |-> FALSE, ref |-> cid,
                   src |-> IF pv.ref # cid
                           THEN LET a == pf.timeline.clips[cid].assetId
                                IN  GetAssetMediaUrl(a, a \in DOMAIN pf.assets
                                                        /\ pf.assets[a].hasProxy)
                           ELSE pv.src]

SetPreview(pv) ==
    /\ currentClipRef' = pv.ref /\ currentSrc' = pv.src /\ isBlack' = pv.black

\* The animation frames of the playback loop: raf.n callbacks are requested
\* and not yet run or cancelled, raf.live tells whether rafRef.current names
\* one of them.
Raf == [n |-> rafPending, live |-> rafLive]

\* if (rafRef.current) cancelAnimationFrame(rafRef.current): cancelling a
\* frame that has run or was cancelled does nothing.
RafCancel(raf) == [n |-> IF raf.live THEN raf.n - 1 ELSE raf.n, live |-> FALSE]

\* The request that asks for no frame.
RafRequestNone(raf) == raf

\* rafRef.current = requestAnimationFrame(tick)
RafRequest(raf) == [n |-> raf.n + 1, live |-> TRUE]

\* The cleanup that leaves the frame requested.
RafCleanupKeep(raf) == raf

\* The cleanup the playback effect returned when it found isPlaying.
RafCleanup(raf) == RafCancel(raf)

\* The playback effect, run again when isPlaying, durationMs or
\* syncVideoToPlayhead (the project behind it) changed: the cleanup of the
\* run before, then the frame cancelled when paused, requested when playing.
PlaybackEffect(raf) ==
    IF isPlaying' # isPlaying \/ projectFile' # projectFile
    THEN LET cleaned == IF isPlaying THEN RafCleanup(raf) ELSE raf
         IN  IF isPlaying' THEN RafRequest(cleaned) ELSE RafCancel(cleaned)
    ELSE raf

\* The effects that never cancel a frame.
PreviewEffectsNoCancel(pv, raf) ==
    LET changed == \/ playheadMs' # playheadMs
                   \/ isPlaying' # isPlaying
                   \/ projectFile' # projectFile
        rerun   == isPlaying' # isPlaying \/ projectFile' # projectFile
    IN  /\ rafPending' = IF rerun /\ isPlaying' THEN raf.n + 1 ELSE raf.n
        /\ rafLive' = (raf.live \/ (rerun /\ isPlaying'))
        /\ SetPreview(IF changed /\ ~isPlaying'
                      THEN SyncVideoToPlayhead(playheadMs', projectFile', pv)
                      ELSE pv)

\* The two effects of PreviewPlayer after a handler that left the preview
\* state pv and the frames raf: the playback effect, and the seek effect,
\* which synchronises while paused when playheadMs, isPlaying or the
\* project behind syncVideoToPlayhead changed.
PreviewEffectsFrom(pv, raf) ==
    LET changed == \/ playheadMs' # playheadMs
                   \/ isPlaying' # isPlaying
                   \/ projectFile' # projectFile
        after   == PlaybackEffect(raf)
    IN  /\ rafPending' = after.n /\ rafLive' = after.live
        /\ SetPreview(IF changed /\ ~isPlaying'
                      THEN SyncVideoToPlayhead(playheadMs', projectFile', pv)
                      ELSE pv)

\* The effects after a handler that touched no frame.
PreviewEffects(pv) == PreviewEffectsFrom(pv, Raf)

-----------------------------------------------------------------------------
(* ClipBlock: what a render leaves on the element                          *)

MIN_BLOCK_PX == 4

Mounted(pf, cid) == pf # None /\ cid \in DOMAIN pf.timeline.clips

\* style={{ left: leftPx, width: Math.max(widthPx, 4) }}
LeftProp(clip, zoom)  == MsToPixels(clip.startMs, zoom)
WidthProp(clip, zoom) == Max(MsToPixels(clip.durationMs, zoom), Px(MIN_BLOCK_PX))

\* The commit after projectFile or zoomLevel changed.  A ClipBlock that
\* appears is mounted with a fresh dragState ref and its props as style; one
\* that stays has a style property written only where the prop differs from
\* the previous render's; one that goes keeps its ref (its closures hold it).
Commit ==
    /\ dragState' = [c \in ClipIds |->
          IF Mounted(projectFile', c) /\ ~Mounted(projectFile, c)
          THEN None ELSE dragState[c]]
    /\ elStyle' = [c \in ClipIds |->
          IF ~Mounted(projectFile', c) THEN None
          ELSE LET new == projectFile'.timeline.clips[c]
               IN  IF ~Mounted(projectFile, c)
                   THEN [left  |-> LeftProp(new, zoomLevel'),
                         width |-> WidthProp(new, zoomLevel')]
                   ELSE LET old == projectFile.timeline.clips[c]
                        IN  [left  |-> IF LeftProp(new, zoomLevel') # LeftProp(old, zoomLevel)
                                       THEN LeftProp(new, zoomLevel')
                                       ELSE elStyle[c].left,
                             width |-> IF WidthProp(new, zoomLevel') # WidthProp(old, zoomLevel)
                                       THEN WidthProp(new, zoomLevel')
                                       ELSE elStyle[c].width]]

\* What React does after a handler replaced the project snapshot.
Rerender == Commit /\ PreviewEffects(Preview)

NoRerender == UNCHANGED <<dragState, elStyle, prevVars>>

-----------------------------------------------------------------------------
(* useProjectStore                                                         *)

NoPath == <<>>
\* `${dirPath}\\project.json`, and its inverse: split, pop, join.
JsonPathOf(dir) == <<dir, "project.json">>
DirOf(jsonPath) == jsonPath[1]

othersOfProject == <<viewVars, listening, gestures, sent, marqueeOrigin, rangeVars, subVars, args>>

\* createProject(dir, name): set loading, await commands.createProject.
CreateProject(dir) ==
    /\ loading' = TRUE /\ error' = NULL
    /\ \E ok \in BOOLEAN :
          /\ backend' = IF ok THEN NewProject ELSE backend
          /\ Invoke("create_project", ok, backend', [who |-> "createProject", dir |-> dir])
    /\ UNCHANGED <<pendingEvents, projectFile, projectDir, projectJsonPath,
                   selectedAssetId, isDirty, othersOfProject>>
    /\ NoRerender

CreateProjectDone(c) ==
    /\ c \in calls /\ c.k.who = "createProject"
    /\ Settle(c)
    /\ IF c.ok
       THEN /\ projectFile' = c.resp
            /\ projectDir' = c.k.dir
            /\ projectJsonPath' = JsonPathOf(c.k.dir)
            /\ isDirty' = FALSE /\ loading' = FALSE /\ selectedAssetId' = NULL
            /\ UNCHANGED error
       ELSE /\ error' = "Error" /\ loading' = FALSE
            /\ UNCHANGED <<projectFile, projectDir, projectJsonPath,
                           selectedAssetId, isDirty>>
    /\ UNCHANGED <<backend, pendingEvents, othersOfProject>>
    /\ Rerender

\* openProject(projectJsonPath): set loading, await commands.openProject.
OpenProject(path) ==
    /\ loading' = TRUE /\ error' = NULL
    /\ \E ok \in BOOLEAN :
          /\ backend' = IF ok THEN StoredProject(path) ELSE backend
          /\ Invoke("open_project", ok, backend',
                    [who |-> "openProject", path |-> JsonPathOf(path)])
    /\ UNCHANGED <<pendingEvents, projectFile, projectDir, projectJsonPath,
                   selectedAssetId, isDirty, othersOfProject>>
    /\ NoRerender

OpenProjectDone(c) ==
    /\ c \in calls /\ c.k.who = "openProject"
    /\ Settle(c)
    /\ IF c.ok
       THEN /\ projectFile' = c.resp
            /\ projectDir' = DirOf(c.k.path)
            /\ projectJsonPath' = c.k.path
            /\ isDirty' = FALSE /\ loading' = FALSE /\ selectedAssetId' = NULL
            /\ UNCHANGED error
       ELSE /\ error' = "Error" /\ loading' = FALSE
            /\ UNCHANGED <<projectFile, projectDir, projectJsonPath,
                           selectedAssetId, isDirty>>
    /\ UNCHANGED <<backend, pendingEvents, othersOfProject>>
    /\ Rerender

\* The operation that does not look for a project first.
SaveOrImportAlways(who) ==
    /\ loading' = TRUE /\ error' = NULL
    /\ \E ok \in BOOLEAN :
          Invoke(who, ok /\ backend # None, None, [who |-> who, stage |-> "command"])
    /\ UNCHANGED <<backend, pendingEvents, projectFile, projectDir, projectJsonPath,
                   selectedAssetId, isDirty, othersOfProject>>
    /\ NoRerender

\* saveProject / importAssets: return at once without a project; otherwise
\* await the command, then await getProject and install what it returns.
SaveOrImport(who) ==
    /\ projectFile # None
    /\ loading' = TRUE /\ error' = NULL
    /\ \E ok \in BOOLEAN :
          Invoke(who, ok /\ backend # None, None, [who |-> who, stage |-> "command"])
    /\ UNCHANGED <<backend, pendingEvents, projectFile, projectDir, projectJsonPath,
                   selectedAssetId, isDirty, othersOfProject>>
    /\ NoRerender

SaveProject  == SaveOrImport("saveProject")
ImportAssets == SaveOrImport("importAssets")

SaveOrImportCommandDone(c) ==
    /\ c \in calls /\ c.k.who \in {"saveProject", "importAssets"}
    /\ c.k.stage = "command"
    /\ IF c.ok
       THEN /\ \E ok \in BOOLEAN :
                 InvokeNext(c, "get_project", ok /\ backend # None, backend,
                            [who |-> c.k.who, stage |-> "get"])
            /\ UNCHANGED <<error, loading>>
       ELSE /\ Settle(c)
            /\ error' = "Error" /\ loading' = FALSE
    /\ UNCHANGED <<backend, pendingEvents, projectFile, projectDir, projectJsonPath,
                   selectedAssetId, isDirty, othersOfProject>>
    /\ NoRerender

SaveOrImportGetDone(c) ==
    /\ c \in calls /\ c.k.who \in {"saveProject", "importAssets"}
    /\ c.k.stage = "get"
    /\ Settle(c)
    /\ IF c.ok
       THEN /\ projectFile' = c.resp /\ isDirty' = FALSE /\ loading' = FALSE
            /\ UNCHANGED error
       ELSE /\ error' = "Error" /\ loading' = FALSE
            /\ UNCHANGED <<projectFile, isDirty>>
    /\ UNCHANGED <<backend, pendingEvents, projectDir, projectJsonPath,
                   selectedAssetId, othersOfProject>>
    /\ Rerender

\* The "project:updated" listener: refreshProject awaits getProject ...
RefreshProject ==
    /\ pendingEvents > 0
    /\ pendingEvents' = pendingEvents - 1
    /\ \E ok \in BOOLEAN :
          InvokeRefresh("get_project", ok /\ backend # None, backend,
                        [who |-> "refreshProject"])
    /\ UNCHANGED <<backend, projVars, othersOfProject>>
    /\ NoRerender

\* ... and installs the snapshot; a failure is swallowed.
RefreshProjectDone(c) ==
    /\ c \in calls /\ c.k.who = "refreshProject"
    /\ Settle(c)
    /\ projectFile' = IF c.ok THEN c.resp ELSE projectFile
    /\ UNCHANGED <<backend, pendingEvents, projectDir, projectJsonPath,
                   selectedAssetId, isDirty, loading, error, othersOfProject>>
    /\ Rerender

\* Task events delivered by "task:updated".
TaskUpdates == {[taskId |-> "t1", state |-> "running"],
                [taskId |-> "t1", state |-> "succeeded"],
                [taskId |-> "t2", state |-> "running"]}

\* The search that finds no task.
FindTaskIndexNone(tasks, taskId) == 0

\* tasks.findIndex((t) => t.taskId === task.taskId), 0 for -1
FindTaskIndex(tasks, taskId) ==
    IF \E i \in DOMAIN tasks : tasks[i].taskId = taskId
    THEN CHOOSE i \in DOMAIN tasks :
            /\ tasks[i].taskId = taskId
            /\ \A j \in DOMAIN tasks : tasks[j].taskId = taskId => i <= j
    ELSE 0

\* The update that rebuilds the project around the backend's timeline.
UpdateTaskOnBackend(task) ==
    /\ projectFile # None
    /\ LET idx == FindTaskIndex(projectFile.tasks, task.taskId)
           newTasks == IF idx >= 1 THEN [projectFile.tasks EXCEPT ![idx] = task]
                       ELSE Append(projectFile.tasks, task)
       IN  projectFile' = RebuildIndexes([backend EXCEPT !.tasks = newTasks])
    /\ UNCHANGED <<bridgeVars, projectDir, projectJsonPath, selectedAssetId,
                   isDirty, loading, error, othersOfProject>>
    /\ Rerender

\* updateTask(task), called by the "task:updated" listener: nothing without
\* a project; otherwise the task replaces the one with its id or is pushed,
\* and the indexes are rebuilt. (The task list the backend holds is not
\* followed.)
UpdateTaskValue(pf, task) ==
    IF pf = None THEN pf
    ELSE LET idx == FindTaskIndex(pf.tasks, task.taskId)
             newTasks == IF idx >= 1 THEN [pf.tasks EXCEPT ![idx] = task]
                         ELSE Append(pf.tasks, task)
         IN  RebuildIndexes([pf EXCEPT !.tasks = newTasks])

UpdateTask(task) ==
    /\ projectFile' = UpdateTaskValue(projectFile, task)
    /\ UNCHANGED <<bridgeVars, projectDir, projectJsonPath, selectedAssetId,
                   isDirty, loading, error, othersOfProject>>
    /\ Rerender

-----------------------------------------------------------------------------
(* projectStore: the event subscriptions                                   *)

\* Calls of initEventSubscriptions(), at most.
MaxInits == 3

TASK_UPDATED    == "task:updated"
PROJECT_UPDATED == "project:updated"

\* The module as loaded: nothing registered, _unsubscribers empty.
Unsubscribed ==
    [listeners |-> {}, unsubscribers |-> <<>>, inits |-> {}, made |-> 0,
     handled |-> None]

ListenersOf(kind) == {l \in subs.listeners : l.kind = kind}

\* The listener ids of the n-th call's two listen() calls.
TaskListenerId(n)    == 2 * n - 1
ProjectListenerId(n) == 2 * n

subsFrame == <<bridgeVars, projVars, viewVars, gestVars, marqueeOrigin,
               rangeStartMs, rangeEndMs, prevVars, args>>

\* initEventSubscriptions() up to its first await: every function of
\* _unsubscribers is called and the array emptied, then
\* subscribeTaskUpdates(...) calls listen("task:updated", ...), whose
\* promise is awaited.
InitEventSubscriptions ==
    /\ subs.made < MaxInits
    /\ LET n    == subs.made + 1
           kept == {l \in subs.listeners :
                      \A i \in DOMAIN subs.unsubscribers : subs.unsubscribers[i] # l.id}
       IN  subs' = [listeners |-> kept \cup {[id |-> TaskListenerId(n),
                                              kind |-> TASK_UPDATED]},
                    unsubscribers |-> <<>>,
                    inits |-> subs.inits \cup {[n |-> n, awaiting |-> TASK_UPDATED]},
                    made |-> n, handled |-> None]
    /\ UNCHANGED subsFrame

\* The call resumes with unsubTask: it is pushed, and
\* subscribeProjectUpdates(...) calls listen("project:updated", ...), whose
\* promise is awaited.
InitEventSubscriptionsTask(c) ==
    /\ c \in subs.inits /\ c.awaiting = TASK_UPDATED
    /\ subs' = [subs EXCEPT
                  !.unsubscribers = Append(@, TaskListenerId(c.n)),
                  !.listeners = @ \cup {[id |-> ProjectListenerId(c.n),
                                         kind |-> PROJECT_UPDATED]},
                  !.inits = (@ \ {c}) \cup {[n |-> c.n, awaiting |-> PROJECT_UPDATED]},
                  !.handled = None]
    /\ UNCHANGED subsFrame

\* The call resumes with unsubProject: it is pushed and the call returns.
InitEventSubscriptionsProject(c) ==
    /\ c \in subs.inits /\ c.awaiting = PROJECT_UPDATED
    /\ subs' = [subs EXCEPT
                  !.unsubscribers = Append(@, ProjectListenerId(c.n)),
                  !.inits = @ \ {c},
                  !.handled = None]
    /\ UNCHANGED subsFrame

\* The backend emits an event of this kind: every listener registered for
\* it runs its handler once.
BackendEvent(kind) ==
    /\ subs' = [subs EXCEPT
                  !.handled = [kind |-> kind, times |-> Cardinality(ListenersOf(kind))]]
    /\ UNCHANGED subsFrame

-----------------------------------------------------------------------------
(* TimelineView: selection by keyboard, deletion, zoom                     *)

Timeline == projectFile.timeline

\* handleClipSelect(clipId, e): Ctrl/Meta toggles, otherwise single select.
HandleClipSelectValue(sel, clipId, ctrl) ==
    IF ctrl THEN ToggleClipValue(sel, clipId) ELSE SelectClipValue(clipId)

\* Ctrl+A: selectClips(Object.keys(timeline.clips)) when a timeline exists.
SelectAll ==
    /\ projectFile # None
    /\ selectedClipIds' = DOMAIN Timeline.clips
    /\ UNCHANGED <<bridgeVars, projVars, playheadMs, isPlaying, zoomLevel,
                   scrollLeftMs, gestVars, marqueeOrigin, rangeVars, subVars, prevVars, args>>

RECURSIVE SeqOfSet(_)
SeqOfSet(S) ==
    IF S = {} THEN <<>>
    ELSE LET x == CHOOSE y \in S : TRUE IN <<x>> \o SeqOfSet(S \ {x})

\* commands.timelineRemoveClip(id): the backend removes a clip it holds and
\* emits "project:updated".
RemoveRequest(cid, ok) ==
    LET succ == ok /\ HasClip(backend, cid)
    IN  /\ backend' = IF succ THEN BackendRemoveClip(backend, cid) ELSE backend
        /\ Emit(succ)

\* What the loop of handleDeleteSelected resumes with after a request: the ids
\* taken from the selection, those requested so far (with the outcome of the
\* request) and those still to request.
DeleteLoop(ids, done, rest) ==
    [who |-> "deleteSelected", ids |-> ids, done |-> done, rest |-> rest]

\* handleDeleteSelected: nothing when the selection is empty; otherwise the
\* selection is cleared and the first removal is awaited.
HandleDeleteSelected ==
    /\ selectedClipIds # {}
    /\ selectedClipIds' = ClearSelectionValue
    /\ LET ids == SeqOfSet(selectedClipIds)
       IN  \E ok \in BOOLEAN :
             LET res == ok /\ HasClip(backend, Head(ids))
             IN  /\ RemoveRequest(Head(ids), ok)
                 /\ Invoke("timeline_remove_clip", res, None,
                           DeleteLoop(ids, <<[id |-> Head(ids), ok |-> res]>>,
                                      Tail(ids)))
    /\ UNCHANGED <<projVars, playheadMs, isPlaying, zoomLevel, scrollLeftMs,
                   gestVars, marqueeOrigin, rangeVars, subVars, prevVars, args>>

\* The loop that ends at the first rejected removal.
HandleDeleteSelectedNextStop(c) ==
    /\ c \in calls /\ c.k.who = "deleteSelected"
    /\ IF c.k.rest = <<>> \/ ~c.ok
       THEN Settle(c) /\ UNCHANGED <<backend, pendingEvents>>
       ELSE \E ok \in BOOLEAN :
             LET id  == Head(c.k.rest)
                 res == ok /\ HasClip(backend, id)
             IN  /\ RemoveRequest(id, ok)
                 /\ InvokeNext(c, "timeline_remove_clip", res, None,
                        DeleteLoop(c.k.ids, Append(c.k.done, [id |-> id, ok |-> res]),
                                   Tail(c.k.rest)))
    /\ UNCHANGED <<projVars, viewVars, gestVars, marqueeOrigin, rangeVars, subVars, prevVars, args>>

\* The loop resumes, whether the removal resolved or was rejected (logged),
\* with the next id.
HandleDeleteSelectedNext(c) ==
    /\ c \in calls /\ c.k.who = "deleteSelected"
    /\ IF c.k.rest = <<>>
       THEN Settle(c) /\ UNCHANGED <<backend, pendingEvents>>
       ELSE \E ok \in BOOLEAN :
             LET id  == Head(c.k.rest)
                 res == ok /\ HasClip(backend, id)
             IN  /\ RemoveRequest(id, ok)
                 /\ InvokeNext(c, "timeline_remove_clip", res, None,
                        DeleteLoop(c.k.ids, Append(c.k.done, [id |-> id, ok |-> res]),
                                   Tail(c.k.rest)))
    /\ UNCHANGED <<projVars, viewVars, gestVars, marqueeOrigin, rangeVars, subVars, prevVars, args>>

\* A zoom button: setZoom(z) for z of ZOOM_LEVELS; every ClipBlock re-renders.
SetZoom(level) ==
    /\ level # zoomLevel
    /\ zoomLevel' = level
    /\ UNCHANGED <<bridgeVars, projVars, playheadMs, isPlaying, scrollLeftMs,
                   selectedClipIds, listening, gestures, sent, marqueeOrigin, rangeVars, subVars, args>>
    /\ Rerender

-----------------------------------------------------------------------------
(* ClipBlock: snapping and the drag gestures                               *)

SNAP_THRESHOLD_PX == 8
SNAP_GRID_MS      == 100
\* The literal 100 of the trim clamps: the shortest clip a trim leaves.
MIN_CLIP_MS       == 100

\* snapTargets: for every clip in key order its start and its end (the
\* dragged clip's own included), then the markers.
RECURSIVE ClipTargets(_, _)
ClipTargets(clips, keys) ==
    IF keys = <<>> THEN <<>>
    ELSE <<clips[Head(keys)].startMs, ClipEnd(clips[Head(keys)])>>
         \o ClipTargets(clips, Tail(keys))

SnapTargets(pf) ==
    IF pf = None THEN <<>>
    ELSE ClipTargets(pf.timeline.clips, pf.timeline.keys) \o pf.timeline.markers

\* The mutant of GridRound: the grid line at or below ms.
GridFloor(ms) == (ms \div Ms(SNAP_GRID_MS)) * Ms(SNAP_GRID_MS)

\* Math.round(ms / SNAP_GRID_MS) * SNAP_GRID_MS
GridRound(ms) ==
    ((ms + Ms(SNAP_GRID_MS) \div 2) \div Ms(SNAP_GRID_MS)) * Ms(SNAP_GRID_MS)

\* for (const target of snapTargets) if (|target - ms| <= msThresh) return target
RECURSIVE FirstTarget(_, _, _)
FirstTarget(targets, ms, msThresh) ==
    IF targets = <<>> THEN ms
    ELSE IF Abs(Head(targets) - ms) <= msThresh THEN Head(targets)
    ELSE FirstTarget(Tail(targets), ms, msThresh)

\* The mutant of SnapToGrid: the targets are tried before the grid.
SnapTargetsFirst(ms, zoom, targets) ==
    LET msThresh    == PixelsToMs(Px(SNAP_THRESHOLD_PX), zoom)
        gridSnapped == GridRound(ms)
        target      == FirstTarget(targets, ms, msThresh)
    IN  IF \E j \in DOMAIN targets : Abs(targets[j] - ms) <= msThresh THEN target
        ELSE IF Abs(gridSnapped - ms) <= msThresh THEN gridSnapped
        ELSE ms

\* snapToGrid(ms) of a render with this zoom and these targets.
SnapToGrid(ms, zoom, targets) ==
    LET msThresh    == PixelsToMs(Px(SNAP_THRESHOLD_PX), zoom)
        gridSnapped == GridRound(ms)
    IN  IF Abs(gridSnapped - ms) <= msThresh THEN gridSnapped
        ELSE FirstTarget(targets, ms, msThresh)

\* The move without its clamp at zero.
MoveStartUnclamped(d, deltaMs, zoom, targets) ==
    SnapToGrid(d.origStartMs + deltaMs, zoom, targets)

\* snapToGrid(Math.max(0, origStartMs + deltaMs))
MoveStart(d, deltaMs, zoom, targets) ==
    SnapToGrid(Max(0, d.origStartMs + deltaMs), zoom, targets)

\* The left trim without its lower clamp.
TrimLeftInNoFloor(d, deltaMs) ==
    Min(d.origOutMs - Ms(MIN_CLIP_MS), d.origInMs + deltaMs)

\* Math.max(0, Math.min(origOutMs - 100, origInMs + deltaMs))
TrimLeftIn(d, deltaMs) ==
    Max(0, Min(d.origOutMs - Ms(MIN_CLIP_MS), d.origInMs + deltaMs))

\* The right trim without its clamp.
TrimRightOutNoFloor(d, deltaMs) == d.origOutMs + deltaMs

\* Math.max(origInMs + 100, origOutMs + deltaMs)
TrimRightOut(d, deltaMs) ==
    Max(d.origInMs + Ms(MIN_CLIP_MS), d.origOutMs + deltaMs)

\* Pointer positions are taken relative to the pointer-down position
\* (ev.clientX - dragState.current.startX), in tenths of a pixel.
DragXs == {0, Px(1) \div 10, Px(31) \div 10, Px(841) \div 10, 0 - Px(60)}
Modes  == {"move", "trim-left", "trim-right"}

MaxGestures == 2

\* One request as it leaves commands.timelineMoveClip / timelineTrimClip.
Request(g, op, cid, startMs, inMs, outMs) ==
    [g |-> g, op |-> op, clipId |-> cid, startMs |-> startMs,
     inMs |-> inMs, outMs |-> outMs]

\* The backend's handling of a request, when it is issued.
BackendApply(b, r) ==
    IF r.op = "move" THEN BackendMoveClip(b, r.clipId, r.startMs)
    ELSE BackendTrimClip(b, r.clipId, r.inMs, r.outMs)

\* handlePointerDown(e, mode) of the ClipBlock of clip cid: onSelect(e), the
\* drag state taken from the clip prop, the listeners attached to document.
\* The listeners close over this render's zoomLevel and snapTargets.
PointerDown(cid, mode, ctrl) ==
    /\ Mounted(projectFile, cid)
    /\ listening = None /\ marqueeOrigin = None
    /\ Len(gestures) < MaxGestures
    /\ selectedClipIds' = HandleClipSelectValue(selectedClipIds, cid, ctrl)
    /\ LET clip == Timeline.clips[cid]
           d    == [mode |-> mode, origStartMs |-> clip.startMs,
                    origInMs |-> clip.inMs, origOutMs |-> clip.outMs]
       IN  /\ dragState' = [dragState EXCEPT ![cid] = d]
           /\ gestures' = Append(gestures,
                 [clipId |-> cid, mode |-> mode, anchor |-> d, zoom |-> zoomLevel,
                  targets |-> SnapTargets(projectFile), up |-> FALSE, upX |-> 0])
    /\ listening' = [g |-> Len(gestures) + 1, clipId |-> cid, zoom |-> zoomLevel,
                     targets |-> SnapTargets(projectFile), moved |-> FALSE, x |-> 0]
    /\ UNCHANGED <<bridgeVars, projVars, playheadMs, isPlaying, zoomLevel,
                   scrollLeftMs, elStyle, sent, marqueeOrigin, rangeVars, subVars, prevVars, args>>

\* onMove(ev): nothing without a drag state; otherwise the element's inline
\* style follows the pointer (the element taken at pointer-down).
PointerMove(x) ==
    /\ listening # None
    /\ x # listening.x
    /\ listening' = [listening EXCEPT !.x = x, !.moved = TRUE]
    /\ LET cid     == listening.clipId
           d       == dragState[cid]
           deltaMs == PixelsToMs(x, listening.zoom)
       IN  elStyle' =
             IF d = None \/ elStyle[cid] = None THEN elStyle
             ELSE IF d.mode = "move"
             THEN [elStyle EXCEPT ![cid].left =
                     MsToPixels(MoveStart(d, deltaMs, listening.zoom, listening.targets),
                                listening.zoom)]
             ELSE IF d.mode = "trim-left"
             THEN LET newIn == TrimLeftIn(d, deltaMs)
                  IN  [elStyle EXCEPT
                         ![cid].left  = MsToPixels(d.origStartMs + (newIn - d.origInMs),
                                                   listening.zoom),
                         ![cid].width = MsToPixels(d.origOutMs - newIn, listening.zoom)]
             ELSE [elStyle EXCEPT ![cid].width =
                     MsToPixels(TrimRightOut(d, deltaMs) - d.origInMs, listening.zoom)]
    /\ UNCHANGED <<bridgeVars, projVars, viewVars, dragState, gestures, sent,
                   marqueeOrigin, rangeVars, subVars, prevVars, args>>

\* The request computed with the zoom and the snap targets of the latest
\* render.
FirstRequestLive(g, cid, d, deltaMs, zoom, targets) ==
    IF d.mode = "move"
    THEN Request(g, "move", cid,
                 MathRound(MoveStart(d, deltaMs, zoomLevel, SnapTargets(projectFile))),
                 Undefined, Undefined)
    ELSE IF d.mode = "trim-left"
    THEN Request(g, "trim", cid, Undefined, MathRound(TrimLeftIn(d, deltaMs)), Undefined)
    ELSE Request(g, "trim", cid, Undefined, Undefined, MathRound(TrimRightOut(d, deltaMs)))

\* The request onUp issues first, from the drag state d it finds.
FirstRequest(g, cid, d, deltaMs, zoom, targets) ==
    IF d.mode = "move"
    THEN Request(g, "move", cid, MathRound(MoveStart(d, deltaMs, zoom, targets)),
                 Undefined, Undefined)
    ELSE IF d.mode = "trim-left"
    THEN Request(g, "trim", cid, Undefined, MathRound(TrimLeftIn(d, deltaMs)), Undefined)
    ELSE Request(g, "trim", cid, Undefined, Undefined, MathRound(TrimRightOut(d, deltaMs)))

\* onUp(ev): the listeners are removed; without a drag state it returns;
\* otherwise the request of the mode found in the drag state is issued and
\* awaited.
PointerUp(x) ==
    /\ listening # None
    /\ listening' = None
    /\ gestures' = [gestures EXCEPT ![listening.g].up = TRUE, ![listening.g].upX = x]
    /\ LET cid == listening.clipId
           d   == dragState[cid]
       IN  IF d = None
           THEN UNCHANGED <<bridgeVars, sent>>
           ELSE LET r == FirstRequest(listening.g, cid, d,
                                      PixelsToMs(x, listening.zoom),
                                      listening.zoom, listening.targets)
                IN  \E ok \in BOOLEAN :
                      LET succ == ok /\ HasClip(backend, cid)
                      IN  /\ backend' = IF succ THEN BackendApply(backend, r) ELSE backend
                          /\ Emit(succ)
                          /\ Invoke(r.op, succ, None,
                                    [who |-> "onUp", g |-> listening.g, clipId |-> cid,
                                     stage |-> d.mode, newIn |-> r.inMs])
                          /\ sent' = Append(sent, r)
    /\ UNCHANGED <<projVars, viewVars, dragState, elStyle, marqueeOrigin, rangeVars, subVars, prevVars, args>>

\* The mutant of FollowUpStart: the start is left where it was.
FollowUpStartNoShift(d, newIn) == MathRound(d.origStartMs)

\* startDelta = Math.round(newIn) - origInMs; newStart = origStartMs +
\* startDelta; the move carries Math.round(newStart).  newIn is the rounded
\* value the trim request carried.
FollowUpStart(d, newIn) == MathRound(d.origStartMs + (newIn - d.origInMs))

\* onUp resumes after an await.  After the move, the right trim or the
\* follow-up move, resolved or rejected (caught and logged), the drag state
\* is cleared.  After a left trim that resolved, the follow-up move is
\* computed from the drag state as it is now: reading it when it has been
\* cleared throws, which the catch logs.
OnUpResume(c) ==
    /\ c \in calls /\ c.k.who = "onUp"
    /\ LET cid == c.k.clipId
           d   == dragState[cid]
       IN  IF c.k.stage = "trim-left" /\ c.ok /\ d # None
           THEN LET r == Request(c.k.g, "move", cid, FollowUpStart(d, c.k.newIn),
                                 Undefined, Undefined)
                IN  \E ok \in BOOLEAN :
                      LET succ == ok /\ HasClip(backend, cid)
                      IN  /\ backend' = IF succ THEN BackendApply(backend, r) ELSE backend
                          /\ Emit(succ)
                          /\ InvokeNext(c, "move", succ, None,
                                        [who |-> "onUp", g |-> c.k.g, clipId |-> cid,
                                         stage |-> "follow", newIn |-> Undefined])
                          /\ sent' = Append(sent, r)
                          /\ UNCHANGED dragState
           ELSE /\ Settle(c)
                /\ dragState' = [dragState EXCEPT ![cid] = None]
                /\ UNCHANGED <<backend, pendingEvents, sent>>
    /\ UNCHANGED <<projVars, viewVars, listening, gestures, elStyle, marqueeOrigin, rangeVars, subVars,
                   prevVars, args>>

-----------------------------------------------------------------------------
(* PreviewPlayer: playback, seeking                                        *)

\* durationMs = timeline?.durationMs ?? 0
DurationMs == IF projectFile = None THEN 0 ELSE Timeline.durationMs

\* Time between two animation frames, and positions of the seek slider
\* (whole milliseconds between 0 and max(durationMs, 1)).
Elapsed   == {Ms(499) + 1, Ms(1000)}
SeekTimes == {Ms(0), Ms(780), Ms(1100), Ms(1250), Ms(4800)}

\* The mutant of TogglePlayValue: the flag is set, as play() sets it.
TogglePlayValueOn(playing) == TRUE

\* togglePlay: set((s) => ({ isPlaying: !s.isPlaying }))
TogglePlayValue(playing) == ~playing

\* togglePlay (the button or the space bar), then the effects.
TogglePlay ==
    /\ isPlaying' = TogglePlayValue(isPlaying)
    /\ args' = [op |-> "togglePlay", before |-> isPlaying]
    /\ UNCHANGED <<bridgeVars, projVars, playheadMs, zoomLevel, scrollLeftMs,
                   selectedClipIds, gestVars, marqueeOrigin, rangeVars, subVars>>
    /\ PreviewEffects(Preview)

\* play(), then the effects.
Play ==
    /\ isPlaying' = TRUE
    /\ args' = [op |-> "play"]
    /\ UNCHANGED <<bridgeVars, projVars, playheadMs, zoomLevel, scrollLeftMs,
                   selectedClipIds, gestVars, marqueeOrigin, rangeVars, subVars>>
    /\ PreviewEffects(Preview)

\* pause(), then the effects.
Pause ==
    /\ isPlaying' = FALSE
    /\ args' = [op |-> "pause"]
    /\ UNCHANGED <<bridgeVars, projVars, playheadMs, zoomLevel, scrollLeftMs,
                   selectedClipIds, gestVars, marqueeOrigin, rangeVars, subVars>>
    /\ PreviewEffects(Preview)

\* onScroll: setScroll(pixelsToMs(el.scrollLeft, zoomLevel))
SetScroll(x) ==
    /\ scrollLeftMs' = SetScrollValue(PixelsToMs(x, zoomLevel))
    /\ args' = [op |-> "setScroll", x |-> x]
    /\ UNCHANGED <<bridgeVars, projVars, playheadMs, isPlaying, zoomLevel,
                   selectedClipIds, gestVars, marqueeOrigin, rangeVars, subVars, prevVars>>

\* The frames once one of the requested callbacks runs: the one
\* rafRef.current names (fromRef) or another.
RafFired(fromRef) ==
    [n |-> rafPending - 1, live |-> IF fromRef THEN FALSE ELSE rafLive]

CanFire(fromRef) ==
    IF fromRef THEN rafLive ELSE rafPending > (IF rafLive THEN 1 ELSE 0)

\* The advance that skips the end test.
TickNoEnd(elapsed) ==
    /\ rafPending > 0
    /\ playheadMs' = SetPlayheadValue(playheadMs + elapsed)
    /\ UNCHANGED isPlaying
    /\ args' = [op |-> "tick", from |-> playheadMs, elapsed |-> elapsed]
    /\ UNCHANGED <<bridgeVars, projVars, zoomLevel, scrollLeftMs,
                   selectedClipIds, gestVars, marqueeOrigin, rangeVars, subVars>>
    /\ \E fromRef \in BOOLEAN :
          /\ CanFire(fromRef)
          /\ PreviewEffectsFrom(SyncVideoToPlayhead(playheadMs + elapsed, projectFile,
                                                    Preview),
                                RafRequest(RafFired(fromRef)))

\* tick(now) of the playback loop, run as a requested animation frame,
\* elapsed = now - lastTimeRef.current: at or past durationMs the playhead
\* is set to durationMs and playback paused (no frame is requested; the
\* effects then run for the paused player); otherwise the playhead is set,
\* the video synchronised to the advanced value, and the next frame
\* requested.
TickLogged(elapsed, log) ==
    /\ rafPending > 0
    /\ args' = log
    /\ UNCHANGED <<bridgeVars, projVars, zoomLevel, scrollLeftMs,
                   selectedClipIds, gestVars, marqueeOrigin, rangeVars, subVars>>
    /\ \E fromRef \in BOOLEAN :
          /\ CanFire(fromRef)
          /\ LET newPlayhead == playheadMs + elapsed
             IN  IF newPlayhead >= DurationMs
                 THEN /\ playheadMs' = SetPlayheadValue(DurationMs)
                      /\ isPlaying' = FALSE
                      /\ PreviewEffectsFrom(Preview, RafFired(fromRef))
                 ELSE /\ playheadMs' = SetPlayheadValue(newPlayhead)
                      /\ UNCHANGED isPlaying
                      /\ PreviewEffectsFrom(SyncVideoToPlayhead(newPlayhead, projectFile,
                                                                Preview),
                                            RafRequest(RafFired(fromRef)))

Tick(elapsed) ==
    TickLogged(elapsed, [op |-> "tick", from |-> playheadMs, elapsed |-> elapsed])

\* A tick logged with the parity of its frame: two frames in a row carry
\* different timestamps (now), so a frame that leaves the playhead where it
\* was is still a step.
TickFrame(elapsed) ==
    TickLogged(elapsed, [op |-> "tick", from |-> playheadMs, elapsed |-> elapsed,
                         now |-> IF "now" \in DOMAIN args THEN 1 - args.now ELSE 0])

\* handleSeek: setPlayhead(ms); syncVideoToPlayhead(ms); then the effects.
HandleSeek(ms) ==
    /\ ms <= Max(DurationMs, Ms(1))
    /\ playheadMs' = SetPlayheadValue(ms)
    /\ args' = [op |-> "seek", ms |-> ms]
    /\ UNCHANGED <<bridgeVars, projVars, isPlaying, zoomLevel, scrollLeftMs,
                   selectedClipIds, gestVars, marqueeOrigin, rangeVars, subVars>>
    /\ PreviewEffects(SyncVideoToPlayhead(ms, projectFile, Preview))

-----------------------------------------------------------------------------
(* PreviewPlayer: capture of the current frame                             *)

\* The mutant of CaptureTMs: the offset into the clip without the trim.
CaptureTMsNoIn(ms, clip) == MathRound(ms - clip.startMs)

\* tMs: Math.round(playheadMs - clip.startMs + clip.inMs)
CaptureTMs(ms, clip) == MathRound(ms - clip.startMs + clip.inMs)

\* handleCaptureFrame: returns without a timeline or a video track, or when
\* findClipAtTime finds no clip; otherwise awaits
\* taskEnqueue("capture_frame", {assetId, tMs, useProxy: true}).
HandleCaptureFrame ==
    LET cid == IF projectFile = None \/ ~Timeline.hasVideo THEN NULL
               ELSE FindClipAtTime(Timeline.clips, Timeline.video, playheadMs)
    IN  /\ args' = [op |-> "captureFrame", playheadMs |-> playheadMs, clip |-> cid]
        /\ IF cid = NULL THEN UNCHANGED calls
           ELSE \E ok \in BOOLEAN :
                  Invoke("task_enqueue", ok, None,
                         [who |-> "captureFrame", kind |-> "capture_frame",
                          assetId |-> Timeline.clips[cid].assetId,
                          tMs |-> CaptureTMs(playheadMs, Timeline.clips[cid]),
                          useProxy |-> TRUE])
        /\ UNCHANGED <<backend, pendingEvents, projVars, viewVars, gestVars,
                       marqueeOrigin, rangeVars, subVars, prevVars>>

\* The enqueue request settled: the task id is dropped, a rejection is
\* caught and logged.
HandleCaptureFrameDone(c) ==
    /\ c \in calls /\ c.k.who = "captureFrame"
    /\ Settle(c)
    /\ UNCHANGED <<backend, pendingEvents, projVars, viewVars, gestVars,
                   marqueeOrigin, rangeVars, subVars, prevVars, args>>

-----------------------------------------------------------------------------
(* useTimelineViewStore: the operations called directly                    *)

\* Ids and arrays of ids handed to the store (the store does not look at the
\* project).
StoreIds == {"v1", "v2", "a1"}
IdArrays == {<<>>, <<"v1">>, <<"v2", "a1">>, <<"v2", "v1", "v2">>,
             <<"a1", "v1", "v2">>}

selectionFrame == <<bridgeVars, projVars, playheadMs, isPlaying, zoomLevel,
                    scrollLeftMs, gestVars, marqueeOrigin, rangeVars, subVars, prevVars>>

\* selectClip(clipId)
SelectClip(clipId) ==
    /\ selectedClipIds' = SelectClipValue(clipId)
    /\ args' = [op |-> "selectClip", id |-> clipId, before |-> selectedClipIds]
    /\ UNCHANGED selectionFrame

\* toggleClip(clipId)
ToggleClip(clipId) ==
    /\ selectedClipIds' = ToggleClipValue(selectedClipIds, clipId)
    /\ args' = [op |-> "toggleClip", id |-> clipId, before |-> selectedClipIds]
    /\ UNCHANGED selectionFrame

\* selectClips(clipIds)
SelectClips(clipIds) ==
    /\ selectedClipIds' = SelectClipsValue(clipIds)
    /\ args' = [op |-> "selectClips", ids |-> clipIds, before |-> selectedClipIds]
    /\ UNCHANGED selectionFrame

\* addClips(clipIds)
AddClips(clipIds) ==
    /\ selectedClipIds' = AddClipsValue(selectedClipIds, NewSet(clipIds))
    /\ args' = [op |-> "addClips", ids |-> clipIds, before |-> selectedClipIds]
    /\ UNCHANGED selectionFrame

\* clearSelection()
ClearSelection ==
    /\ selectedClipIds' = ClearSelectionValue
    /\ args' = [op |-> "clearSelection", before |-> selectedClipIds]
    /\ UNCHANGED selectionFrame

\* setPlayhead(ms) called on the store, then the effects of the preview.
SetPlayhead(ms) ==
    /\ playheadMs' = SetPlayheadValue(ms)
    /\ args' = [op |-> "setPlayhead", ms |-> ms]
    /\ UNCHANGED <<bridgeVars, projVars, isPlaying, zoomLevel, scrollLeftMs,
                   selectedClipIds, gestVars, marqueeOrigin, rangeVars, subVars>>
    /\ PreviewEffects(Preview)

\* setScroll(ms) called on the store.
SetScrollTo(ms) ==
    /\ scrollLeftMs' = SetScrollValue(ms)
    /\ args' = [op |-> "setScroll", ms |-> ms]
    /\ UNCHANGED <<bridgeVars, projVars, playheadMs, isPlaying, zoomLevel,
                   selectedClipIds, gestVars, marqueeOrigin, rangeVars, subVars, prevVars>>

-----------------------------------------------------------------------------
(* TimelineView: the marquee on the track area                             *)

TRACK_LABEL_WIDTH == 96
MARQUEE_MIN_PX    == 4

\* Horizontal pointer positions in the track area, scroll offset added.
MarqueeXs == {Px(40), Px(96), Px(98), Px(201), Px(226)}

\* The ids pushed by the loop of the modifier branch of onUp.
MarqueeHits(clips, lo, hi) ==
    {cid \in DOMAIN clips : clips[cid].startMs < hi /\ ClipEnd(clips[cid]) > lo}

marqueeFrame == <<bridgeVars, projVars, playheadMs, isPlaying, zoomLevel,
                  scrollLeftMs, rangeVars, subVars, gestVars, prevVars>>

\* handleTrackAreaPointerDown(e) on the background: the origin is stored and
\* the selection cleared unless Ctrl/Meta is held. The listeners close over
\* this render's timeline and zoomLevel (kept with the origin). ctrl and began
\* record the modifier of this event and the selection it found.
MarqueeDown(x, ctrl) ==
    /\ marqueeOrigin = None /\ listening = None
    /\ marqueeOrigin' = [x |-> x,
                         timeline |-> IF projectFile = None THEN None ELSE Timeline,
                         zoom |-> zoomLevel,
                         ctrl |-> ctrl, began |-> selectedClipIds]
    /\ selectedClipIds' = IF ~ctrl THEN ClearSelectionValue ELSE selectedClipIds
    /\ args' = [op |-> "marqueeDown", x |-> x, ctrl |-> ctrl,
                before |-> selectedClipIds]
    /\ UNCHANGED marqueeFrame

\* onUp(ev): without a timeline, or narrower than 4 px, the origin is dropped;
\* otherwise the span is converted to ms and, with Ctrl/Meta held at this
\* event, the overlapping ids are added, without it selectRange is called.
MarqueeUp(curX, ctrl) ==
    /\ marqueeOrigin # None
    /\ marqueeOrigin' = None
    /\ LET o       == marqueeOrigin
           startPx == Min(o.x, curX) - Px(TRACK_LABEL_WIDTH)
           endPx   == Max(o.x, curX) - Px(TRACK_LABEL_WIDTH)
           startMs == PixelsToMs(Max(0, startPx), o.zoom)
           endMs   == PixelsToMs(endPx, o.zoom)
           null    == o.timeline = None \/ endPx - startPx < Px(MARQUEE_MIN_PX)
       IN  /\ selectedClipIds' =
                 IF null THEN selectedClipIds
                 ELSE IF ctrl
                 THEN AddClipsValue(selectedClipIds,
                         MarqueeHits(o.timeline.clips, Min(startMs, endMs),
                                     Max(startMs, endMs)))
                 ELSE SelectRangeValue(startMs, endMs, o.timeline.clips)
           /\ args' = [op |-> "marqueeUp", from |-> o.x, to |-> curX,
                       zoom |-> o.zoom, ctrlDown |-> o.ctrl, ctrlUp |-> ctrl,
                       began |-> o.began, before |-> selectedClipIds,
                       null |-> null]
    /\ UNCHANGED marqueeFrame

-----------------------------------------------------------------------------
(* TimelineView: the time range picked on the ruler                        *)

\* Pointer positions on the ruler, from its left edge.
RulerXs == {0, Px(50) + 100, Px(120), Px(300)}

\* TimeRuler handleClick: pixelsToMs(x, zoomLevel) + scrollLeftMs, rounded
\* and not below 0, is handed to onRulerClick.
RulerClickMs(x, zoom, scroll) == Max(0, MathRound(PixelsToMs(x, zoom) + scroll))

\* hasRange, and the pair as the ruler, the toolbar and the overlay read it.
HasRange == rangeStartMs # NullMs /\ rangeEndMs # NullMs
RulerRangeLo == IF HasRange THEN Min(rangeStartMs, rangeEndMs) ELSE 0
RulerRangeHi == IF HasRange THEN Max(rangeStartMs, rangeEndMs) ELSE 0

\* The store's setRangeStart(ms): a new start, the end cleared.
SetRangeStartValue(ms) == [start |-> ms, end |-> NullMs]
\* The store's setRangeEnd(ms, clips): the end committed beside the start.
SetRangeEndValue(start, ms) == [start |-> start, end |-> ms]
\* The store's clearRange(): no start, no end.
ClearRangeValue == [start |-> NullMs, end |-> NullMs]

\* The click handler that starts a new range at every click.
HandleRulerClickRestart(x) ==
    /\ projectFile # None
    /\ LET ms == RulerClickMs(x, zoomLevel, scrollLeftMs)
           r  == SetRangeStartValue(ms)
       IN  /\ rangeStartMs' = r.start /\ rangeEndMs' = r.end
           /\ args' = [op |-> "rulerClick", ms |-> ms,
                       before |-> [start |-> rangeStartMs, end |-> rangeEndMs]]
    /\ UNCHANGED <<bridgeVars, projVars, viewVars, gestVars, marqueeOrigin, subVars,
                   prevVars>>

\* A click on the ruler at x: handleClick of TimeRuler, then handleRulerClick
\* (the ruler is rendered with a project, whose timeline exists). setRangeEnd
\* is handed the clips; whether it also selects the clips of the range is
\* left open.
HandleRulerClick(x) ==
    /\ projectFile # None
    /\ LET ms == RulerClickMs(x, zoomLevel, scrollLeftMs)
           r  == IF rangeStartMs = NullMs \/ rangeEndMs # NullMs
                 THEN SetRangeStartValue(ms)
                 ELSE SetRangeEndValue(rangeStartMs, ms)
       IN  /\ rangeStartMs' = r.start /\ rangeEndMs' = r.end
           /\ selectedClipIds' \in
                 IF rangeStartMs = NullMs \/ rangeEndMs # NullMs
                 THEN {selectedClipIds}
                 ELSE {selectedClipIds,
                       SelectRangeValue(rangeStartMs, ms, Timeline.clips)}
           /\ args' = [op |-> "rulerClick", ms |-> ms,
                       before |-> [start |-> rangeStartMs, end |-> rangeEndMs]]
    /\ UNCHANGED <<bridgeVars, projVars, playheadMs, isPlaying, zoomLevel,
                   scrollLeftMs, gestVars, marqueeOrigin, subVars, prevVars>>

\* Escape, or the clear button shown while a start is set: clearRange().
ClearRange ==
    /\ rangeStartMs' = ClearRangeValue.start /\ rangeEndMs' = ClearRangeValue.end
    /\ args' = [op |-> "clearRange",
                before |-> [start |-> rangeStartMs, end |-> rangeEndMs]]
    /\ UNCHANGED <<bridgeVars, projVars, viewVars, gestVars, marqueeOrigin, subVars,
                   prevVars>>

-----------------------------------------------------------------------------
(* Initial states and specifications                                       *)

NoArgs == [op |-> "none"]

\* The listeners after the one initEventSubscriptions() call App makes when
\* it mounts has finished: one of each kind, both in _unsubscribers.
Subscribed ==
    [listeners |-> {[id |-> 1, kind |-> "task:updated"],
                    [id |-> 2, kind |-> "project:updated"]},
     unsubscribers |-> <<1, 2>>, inits |-> {}, made |-> 1, handled |-> None]

InitView ==
    /\ playheadMs = 0 /\ isPlaying = FALSE /\ zoomLevel = 100
    /\ scrollLeftMs = 0 /\ selectedClipIds = {}
    /\ rangeStartMs = NullMs /\ rangeEndMs = NullMs

InitWidgets ==
    /\ listening = None /\ gestures = <<>> /\ sent = <<>>
    /\ marqueeOrigin = None
    /\ currentClipRef = NULL /\ currentSrc = NoSrc /\ isBlack = TRUE
    /\ rafPending = 0 /\ rafLive = FALSE

InitComponents == InitWidgets /\ subs = Subscribed

\* The application after start: no project.
Init ==
    /\ backend = None /\ calls = {} /\ pendingEvents = 0
    /\ projectFile = None /\ projectDir = NULL /\ projectJsonPath = NoPath
    /\ selectedAssetId = NULL /\ isDirty = FALSE /\ loading = FALSE /\ error = NULL
    /\ InitView /\ InitComponents
    /\ dragState = [c \in ClipIds |-> None]
    /\ elStyle = [c \in ClipIds |-> None]
    /\ args = NoArgs

\* The application with the stored project of directory path opened and
\* rendered, the preview synchronised to the playhead at 0.
InitOpened(path) ==
    LET pf == StoredProject(path)
        pv == SyncVideoToPlayhead(0, pf, [ref |-> NULL, src |-> NoSrc, black |-> TRUE])
    IN  /\ backend = pf /\ calls = {} /\ pendingEvents = 0
        /\ projectFile = pf /\ projectDir = path /\ projectJsonPath = JsonPathOf(path)
        /\ selectedAssetId = NULL /\ isDirty = FALSE /\ loading = FALSE /\ error = NULL
        /\ InitView
        /\ listening = None /\ gestures = <<>> /\ sent = <<>> /\ marqueeOrigin = None
        /\ subs = Subscribed
        /\ currentClipRef = pv.ref /\ currentSrc = pv.src /\ isBlack = pv.black
        /\ rafPending = 0 /\ rafLive = FALSE
        /\ dragState = [c \in ClipIds |-> None]
        /\ elStyle = [c \in ClipIds |->
              IF c \in DOMAIN pf.timeline.clips
              THEN [left  |-> LeftProp(pf.timeline.clips[c], 100),
                    width |-> WidthProp(pf.timeline.clips[c], 100)]
              ELSE None]
        /\ args = NoArgs

\* Projects, selection and deletion.
NextSelect ==
    \/ \E path \in {"B", "C"} : OpenProject(path)
    \/ CreateProject("N")
    \/ SaveProject
    \/ ImportAssets
    \/ RefreshProject
    \/ \E c \in calls : CreateProjectDone(c)
    \/ \E c \in calls : OpenProjectDone(c)
    \/ \E c \in calls : SaveOrImportCommandDone(c)
    \/ \E c \in calls : SaveOrImportGetDone(c)
    \/ \E c \in calls : RefreshProjectDone(c)
    \/ SelectAll
    \/ HandleDeleteSelected
    \/ \E c \in calls : HandleDeleteSelectedNext(c)

SpecSelect == Init /\ [][NextSelect]_vars

\* selectRange as a function of its arguments: any pair of times over a
\* clip map, the selection holding ids the call has to replace.
ClipsOfTest == [c \in {"v1", "v2", "a1", "t1", "v3"} |->
    CASE c = "v1" -> MkClip(VideoTrk, "as1", 0, 0, 5000)
      [] c = "v2" -> MkClip(VideoTrk, "as2", 5000, 0, 3000)
      [] c = "a1" -> MkClip(AudioTrk, "as3", 1000, 0, 4000)
      [] c = "t1" -> MkClip("trk_t", "as3", 6000, 0, 2000)
      [] c = "v3" -> MkClip(VideoTrk, "as1", 10000, 0, 2000)]

RangeTimes == {Ms(0), Ms(500), Ms(1000), Ms(4500), Ms(5000), Ms(8000), Ms(9000),
               Ms(10000) + 1}
RangeClipMaps == {ClipsOfTest, ClipsA, EmptyClips}

InitRange ==
    /\ backend = None /\ calls = {} /\ pendingEvents = 0
    /\ projectFile = None /\ projectDir = NULL /\ projectJsonPath = NoPath
    /\ selectedAssetId = NULL /\ isDirty = FALSE /\ loading = FALSE /\ error = NULL
    /\ playheadMs = 0 /\ isPlaying = FALSE /\ zoomLevel = 100 /\ scrollLeftMs = 0
    /\ selectedClipIds \in {{}, {"old", "v3"}}
    /\ rangeStartMs = NullMs /\ rangeEndMs = NullMs
    /\ InitComponents
    /\ dragState = [c \in ClipIds |-> None]
    /\ elStyle = [c \in ClipIds |-> None]
    /\ args \in [startMs : RangeTimes, endMs : RangeTimes, clips : RangeClipMaps,
                  applied : {FALSE}]

\* selectRange(startMs, endMs, clips)
SelectRange ==
    /\ ~args.applied
    /\ selectedClipIds' = SelectRangeValue(args.startMs, args.endMs, args.clips)
    /\ args' = [args EXCEPT !.applied = TRUE]
    /\ UNCHANGED <<bridgeVars, projVars, playheadMs, isPlaying, zoomLevel,
                   scrollLeftMs, gestVars, marqueeOrigin, rangeVars, subVars, prevVars>>

NextRange == SelectRange

SpecRange == InitRange /\ [][NextRange]_vars

\* findClipAtTime as a function of its arguments: clip maps with
\* overlapping and abutting clips, track lists in both orders, with an id
\* the map does not hold, and empty.
FindClipMaps == {ClipsA, ClipsOfTest, EmptyClips}
FindTracks   == {<<>>, <<"v1", "v2">>, <<"v2", "v1">>, <<"gone", "v1", "v2", "v3">>,
                 <<"v3", "gone">>}
FindTimes    == {Ms(0), Ms(1029) + 1, Ms(1030), Ms(1200), Ms(1279) + 1, Ms(1280),
                 Ms(1500), Ms(4999) + 1, Ms(5000), Ms(8000), Ms(10000), Ms(12000)}

InitFind ==
    /\ backend = None /\ calls = {} /\ pendingEvents = 0
    /\ projectFile = None /\ projectDir = NULL /\ projectJsonPath = NoPath
    /\ selectedAssetId = NULL /\ isDirty = FALSE /\ loading = FALSE /\ error = NULL
    /\ InitView /\ InitComponents
    /\ dragState = [c \in ClipIds |-> None]
    /\ elStyle = [c \in ClipIds |-> None]
    /\ args \in [clips : FindClipMaps, trackClipIds : FindTracks, playheadMs : FindTimes,
                  applied : {FALSE}, result : {NULL}]

Find ==
    /\ ~args.applied
    /\ args' = [args EXCEPT !.applied = TRUE,
                            !.result = FindClipAtTime(args.clips, args.trackClipIds,
                                                      args.playheadMs)]
    /\ UNCHANGED <<bridgeVars, projVars, viewVars, gestVars, marqueeOrigin, rangeVars, subVars, prevVars>>

NextFind == Find

SpecFind == InitFind /\ [][NextFind]_vars

\* msToPixels and pixelsToMs as functions of their arguments, each applied
\* to the other's result: whole and half milliseconds, whole pixels and
\* fractions of one, at every zoom level.
ConvertTimes  == {0, 1, Ms(1), Ms(33) + 1, Ms(1000), Ms(3456), Ms(90000) + 1,
                  Ms(3600000)}
ConvertPixels == {0, 1, Px(1) \div 10, Px(1), Px(8), Px(100) + 333, Px(841) \div 10,
                  Px(345600) + 1999}

InitConvert ==
    /\ backend = None /\ calls = {} /\ pendingEvents = 0
    /\ projectFile = None /\ projectDir = NULL /\ projectJsonPath = NoPath
    /\ selectedAssetId = NULL /\ isDirty = FALSE /\ loading = FALSE /\ error = NULL
    /\ InitView /\ InitComponents
    /\ dragState = [c \in ClipIds |-> None]
    /\ elStyle = [c \in ClipIds |-> None]
    /\ args \in [ms : ConvertTimes, px : ConvertPixels, zoom : ZOOM_LEVELS,
                  applied : {FALSE}, msBack : {0}, pxBack : {0}]

Convert ==
    /\ ~args.applied
    /\ args' = [args EXCEPT
                  !.applied = TRUE,
                  !.msBack = PixelsToMs(MsToPixels(args.ms, args.zoom), args.zoom),
                  !.pxBack = MsToPixels(PixelsToMs(args.px, args.zoom), args.zoom)]
    /\ UNCHANGED <<bridgeVars, projVars, viewVars, gestVars, marqueeOrigin, rangeVars, subVars, prevVars>>

NextConvert == Convert

SpecConvert == InitConvert /\ [][NextConvert]_vars

\* formatMs as a function of its argument.
FormatTimes == {0, 1, Ms(9), Ms(10), Ms(999), Ms(999) + 1, Ms(1000), Ms(1234),
                Ms(1239) + 1, Ms(1500), Ms(59999), Ms(59999) + 1, Ms(60000),
                Ms(90000), Ms(599990), Ms(5999999), Ms(5999999) + 1, Ms(6000000),
                Ms(7261230)}
               \cup {Ms(6173 * k) + (k % 2) : k \in 0..60}

InitFormat ==
    /\ backend = None /\ calls = {} /\ pendingEvents = 0
    /\ projectFile = None /\ projectDir = NULL /\ projectJsonPath = NoPath
    /\ selectedAssetId = NULL /\ isDirty = FALSE /\ loading = FALSE /\ error = NULL
    /\ InitView /\ InitComponents
    /\ dragState = [c \in ClipIds |-> None]
    /\ elStyle = [c \in ClipIds |-> None]
    /\ args \in [ms : FormatTimes, applied : {FALSE}, text : {<<>>}]

Format ==
    /\ ~args.applied
    /\ args' = [args EXCEPT !.applied = TRUE, !.text = FormatMs(args.ms)]
    /\ UNCHANGED <<bridgeVars, projVars, viewVars, gestVars, marqueeOrigin, rangeVars, subVars, prevVars>>

NextFormat == Format

SpecFormat == InitFormat /\ [][NextFormat]_vars

\* snapToGrid as a function of its arguments: times on, near and between
\* the grid lines, every zoom level, and target lists: the snapTargets of
\* project A, the same in reverse order, and lists of two near targets in
\* both orders.
RECURSIVE Reverse(_)
Reverse(s) == IF s = <<>> THEN <<>> ELSE Append(Reverse(Tail(s)), Head(s))

SnapTimes == {Ms(0), Ms(39), Ms(40) + 1, Ms(1000), Ms(1020), Ms(1041), Ms(1045),
              Ms(1049) + 1, Ms(1050), Ms(1055), Ms(1081), Ms(1160), Ms(1300),
              Ms(1345), Ms(6950)}
SnapLists == {<<>>, <<Ms(1050)>>, <<Ms(1020), Ms(1045)>>, <<Ms(1045), Ms(1020)>>,
              SnapTargets(StoredProject("A")), Reverse(SnapTargets(StoredProject("A"))),
              SnapTargets(StoredProject("B"))}

InitSnap ==
    /\ backend = None /\ calls = {} /\ pendingEvents = 0
    /\ projectFile = None /\ projectDir = NULL /\ projectJsonPath = NoPath
    /\ selectedAssetId = NULL /\ isDirty = FALSE /\ loading = FALSE /\ error = NULL
    /\ InitView /\ InitComponents
    /\ dragState = [c \in ClipIds |-> None]
    /\ elStyle = [c \in ClipIds |-> None]
    /\ args \in [ms : SnapTimes, zoom : ZOOM_LEVELS, targets : SnapLists,
                  applied : {FALSE}, result : {0}]

Snap ==
    /\ ~args.applied
    /\ args' = [args EXCEPT !.applied = TRUE,
                            !.result = SnapToGrid(args.ms, args.zoom, args.targets)]
    /\ UNCHANGED <<bridgeVars, projVars, viewVars, gestVars, marqueeOrigin, rangeVars, subVars, prevVars>>

NextSnap == Snap

SpecSnap == InitSnap /\ [][NextSnap]_vars

\* One drag gesture on a clip of project A, at any zoom, with snapshots
\* refreshed behind it.
InitDrag == InitOpened("A")

NextDrag ==
    \/ \E z \in ZOOM_LEVELS : SetZoom(z)
    \/ \E cid \in ClipIds, mode \in Modes, ctrl \in BOOLEAN :
          gestures = <<>> /\ PointerDown(cid, mode, ctrl)
    \/ \E x \in DragXs : PointerMove(x)
    \/ \E x \in DragXs : PointerUp(x)
    \/ \E c \in calls : OnUpResume(c)
    \/ RefreshProject
    \/ \E c \in calls : RefreshProjectDone(c)

SpecDrag == InitDrag /\ [][NextDrag]_vars

\* Successive gestures on the clip of project B, each free to start while
\* the requests of the one before are awaited.
InitGesture == InitOpened("B")

NextGesture ==
    \/ \E mode \in Modes : PointerDown("b1", mode, FALSE)
    \/ \E x \in {0, Px(841) \div 10} : PointerUp(x)
    \/ \E c \in calls : OnUpResume(c)
    \/ RefreshProject
    \/ \E c \in calls : RefreshProjectDone(c)

SpecGesture == InitGesture /\ [][NextGesture]_vars

\* Two gestures on the trimmed clip v2 of project A (startMs 1200, inMs
\* 100): moves and left trims, dragged to the left and to the right, at
\* zoom 50 and 100, the second free to start while the first is awaited.
InitTrim == InitOpened("A")

TrimXs == {0, Px(31) \div 10, 0 - Px(60)}

NextTrim ==
    \/ SetZoom(50)
    \/ \E mode \in {"move", "trim-left"} : PointerDown("v2", mode, FALSE)
    \/ \E x \in TrimXs : PointerMove(x)
    \/ \E x \in TrimXs : PointerUp(x)
    \/ \E c \in calls : OnUpResume(c)
    \/ RefreshProject
    \/ \E c \in calls : RefreshProjectDone(c)

SpecTrim == InitTrim /\ [][NextTrim]_vars

\* The end-to-end scenario: move gestures on the clip [0, 5000) of project
\* B, whose marker is at 7000 ms, released 200, 695 and 703 px to the right.
InitScenario == InitOpened("B")

ScenarioXs == {Px(200), Px(695), Px(703)}

NextScenario ==
    \/ \E z \in {100, 200} : SetZoom(z)
    \/ PointerDown("b1", "move", FALSE)
    \/ \E x \in ScenarioXs : PointerMove(x)
    \/ \E x \in ScenarioXs : PointerUp(x)
    \/ \E c \in calls : OnUpResume(c)
    \/ RefreshProject
    \/ \E c \in calls : RefreshProjectDone(c)

SpecScenario == InitScenario /\ [][NextScenario]_vars

\* Playback and seeking over projects that are opened and replaced.
InitPreview == Init

NextPreview ==
    \/ \E path \in ProjectPaths : OpenProject(path)
    \/ \E c \in calls : OpenProjectDone(c)
    \/ TogglePlay
    \/ \E e \in Elapsed : Tick(e)
    \/ \E ms \in SeekTimes : HandleSeek(ms)

SpecPreview == InitPreview /\ [][NextPreview]_vars

\* The view store driven directly, as its unit tests drive it.
InitStore == Init

NextStore ==
    \/ \E id \in StoreIds \cup {NULL} : SelectClip(id)
    \/ \E id \in StoreIds : ToggleClip(id)
    \/ \E ids \in IdArrays : SelectClips(ids)
    \/ \E ids \in IdArrays : AddClips(ids)
    \/ ClearSelection

SpecStore == InitStore /\ [][NextStore]_vars

\* The playback flag driven by togglePlay, play and pause while projects
\* are opened, the playhead advances and is sought, and the selection, the
\* zoom and the scroll offset are set.
InitPlay == Init

NextPlay ==
    \/ \E path \in {"A", "B"} : OpenProject(path)
    \/ \E c \in calls : OpenProjectDone(c)
    \/ TogglePlay
    \/ Play
    \/ Pause
    \/ Tick(Ms(1000))
    \/ \E ms \in {Ms(780), Ms(4800)} : HandleSeek(ms)
    \/ SelectClip("v1")
    \/ SetZoom(200)
    \/ SetScroll(Px(30))

SpecPlay == InitPlay /\ [][NextPlay]_vars

\* Capture of the current frame on project A while the playhead is sought
\* and played, and on project C, which has no video track.
InitCapture == InitOpened("A")

CaptureSeeks == {Ms(780), Ms(1100), Ms(1250), Ms(1300), Ms(4800)}

NextCapture ==
    \/ \E ms \in CaptureSeeks : HandleSeek(ms)
    \/ TogglePlay
    \/ \E e \in Elapsed : Tick(e)
    \/ HandleCaptureFrame
    \/ \E c \in calls : HandleCaptureFrameDone(c)
    \/ OpenProject("C")
    \/ \E c \in calls : OpenProjectDone(c)

SpecCapture == InitCapture /\ [][NextCapture]_vars

\* Clicks on the clips of project A, plain and with Ctrl/Meta held, between
\* direct toggles.
InitClick == InitOpened("A")

NextClick ==
    \/ \E id \in StoreIds : ToggleClip(id)
    \/ \E cid \in StoreIds, ctrl \in BOOLEAN : PointerDown(cid, "move", ctrl)
    \/ PointerUp(0)
    \/ \E c \in calls : OnUpResume(c)

SpecClick == InitClick /\ [][NextClick]_vars

\* Marquee gestures over the track area of project A, at any zoom, from
\* selections built with addClips.
InitMarquee == InitOpened("A")

NextMarquee ==
    \/ \E x \in MarqueeXs, ctrl \in BOOLEAN : MarqueeDown(x, ctrl)
    \/ \E x \in MarqueeXs, ctrl \in BOOLEAN : MarqueeUp(x, ctrl)
    \/ \E ids \in IdArrays : marqueeOrigin = None /\ AddClips(ids)
    \/ \E z \in ZOOM_LEVELS : marqueeOrigin = None /\ SetZoom(z)

SpecMarquee == InitMarquee /\ [][NextMarquee]_vars

\* Deletion of selections built by toggles and Ctrl+A on project A.
InitDelete == InitOpened("A")

NextDelete ==
    \/ \E id \in StoreIds : ToggleClip(id)
    \/ SelectAll
    \/ HandleDeleteSelected
    \/ \E c \in calls : HandleDeleteSelectedNext(c)

SpecDelete == InitDelete /\ [][NextDelete]_vars

\* The clips of project A removed one request after the other, every
\* "project:updated" event answered by a re-fetch.
InitRefresh == InitOpened("A")

NextRefresh ==
    \/ SelectAll
    \/ HandleDeleteSelected
    \/ \E c \in calls : HandleDeleteSelectedNext(c)
    \/ RefreshProject
    \/ \E c \in calls : RefreshProjectDone(c)

SpecRefresh == InitRefresh /\ [][NextRefresh]_vars

\* One operation of every kind on project B: a drag, a selection, seeking,
\* playback to the end, zoom, scroll, task events, and the project saved,
\* re-fetched and replaced by project C.
InitFrame == InitOpened("B")

FrameTasks == {t \in TaskUpdates : t.taskId = "t1"}

NextFrame ==
    \/ gestures = <<>> /\ PointerDown("b1", "move", FALSE)
    \/ PointerMove(Px(841) \div 10)
    \/ PointerUp(Px(841) \div 10)
    \/ \E c \in calls : OnUpResume(c)
    \/ ToggleClip("b1")
    \/ HandleSeek(Ms(4800))
    \/ TogglePlay
    \/ playheadMs > 0 /\ Tick(Ms(1000))
    \/ SetZoom(200)
    \/ SetScroll(Px(30))
    \/ \E task \in FrameTasks : UpdateTask(task)
    \/ OpenProject("C")
    \/ \E c \in calls : OpenProjectDone(c)
    \/ SaveProject
    \/ \E c \in calls : SaveOrImportCommandDone(c)
    \/ \E c \in calls : SaveOrImportGetDone(c)
    \/ RefreshProject
    \/ \E c \in calls : RefreshProjectDone(c)

SpecFrame == InitFrame /\ [][NextFrame]_vars

\* Clicks on the ruler of project A at any zoom, the range cleared between
\* them.
InitRuler == InitOpened("A")

NextRuler ==
    \/ \E x \in RulerXs : HandleRulerClick(x)
    \/ ClearRange
    \/ \E z \in ZOOM_LEVELS : SetZoom(z)

SpecRuler == InitRuler /\ [][NextRuler]_vars

-----------------------------------------------------------------------------
(* Claims                                                                  *)

\* C1: after every replacement of the project snapshot (refreshProject,
\* openProject, createProject, saveProject, importAssets) every id in
\* selectedClipIds is a key of the new timeline's clip map.
C1_SelectionPrunedOnSnapshot ==
    [][(projectFile' # projectFile /\ projectFile' # None)
         => selectedClipIds' \subseteq DOMAIN projectFile'.timeline.clips]_vars

\* The start a move commits in the order the specification writes it.
SpecMoveStart(d, deltaMs, zoom, targets) ==
    Max(0, SnapToGrid(d.origStartMs + deltaMs, zoom, targets))

GestureDelta(G) == PixelsToMs(G.upX, G.zoom)

\* Every move request of a move gesture carries
\* round(max(0, snap(anchor.startMs + deltaMs))).
MoveCommitted ==
    \A i \in DOMAIN sent :
       LET r == sent[i]
           G == gestures[r.g]
       IN  G.mode = "move" =>
             /\ r.op = "move"
             /\ r.startMs = MathRound(SpecMoveStart(G.anchor, GestureDelta(G),
                                                    G.zoom, G.targets))

\* A pointer-move step of a move gesture, with the start it has to show.
MoveShown(round) ==
    (/\ listening # None /\ listening' # None /\ listening'.x # listening.x
     /\ dragState[listening.clipId] # None
     /\ dragState[listening.clipId].mode = "move"
     /\ elStyle[listening.clipId] # None)
    => LET d == dragState[listening.clipId]
           v == SpecMoveStart(d, PixelsToMs(listening'.x, listening.zoom),
                              listening.zoom, listening.targets)
       IN  elStyle'[listening.clipId].left =
             MsToPixels(IF round THEN MathRound(v) ELSE v, listening.zoom)

\* C2 (as stated): the start a move gesture commits at pointer-up, and the
\* start it shows during the drag, equal max(0, snap(anchor.startMs +
\* deltaMs)) rounded to an integer millisecond.
C2_MoveStartRounded == []MoveCommitted /\ [][MoveShown(TRUE)]_vars

\* C2 (amended): the committed start is max(0, snap(anchor.startMs +
\* deltaMs)) rounded to an integer millisecond, the start shown during the
\* drag is that value unrounded; the code's order snap(max(0, ...)) gives
\* the same values.
C2_MoveStart == []MoveCommitted /\ [][MoveShown(FALSE)]_vars

\* A move dragged to the left of zero was committed at 0.
C2_Witness ==
    \E i \in DOMAIN sent :
       /\ gestures[sent[i].g].mode = "move"
       /\ gestures[sent[i].g].upX = 0 - Px(60)
       /\ gestures[sent[i].g].zoom = 50
       /\ sent[i].op = "move" /\ sent[i].startMs = 0

Clamp(x, lo, hi) == Max(lo, Min(hi, x))

\* The trim requests of the left-trim gestures satisfy P(request, gesture).
TrimLeftSent(P(_, _)) ==
    \A i \in DOMAIN sent :
       LET r == sent[i]
           G == gestures[r.g]
       IN  (G.mode = "trim-left" /\ r.op = "trim") => P(r, G)

\* C3 (as stated): the inMs a trim-left gesture sends equals
\* clamp(anchor.inMs + deltaMs, 0, anchor.outMs - 100); it is never below 0,
\* exactly outMs - 100 when dragged past that point, and the trimmed clip
\* keeps a length of at least 100 ms.
C3_TrimLeftClamp ==
    TrimLeftSent(LAMBDA r, G :
       LET x == G.anchor.origInMs + GestureDelta(G)
       IN  /\ r.inMs = Clamp(x, 0, G.anchor.origOutMs - Ms(100))
           /\ r.inMs >= 0
           /\ (x >= G.anchor.origOutMs - Ms(100)
                 => r.inMs = G.anchor.origOutMs - Ms(100))
           /\ G.anchor.origOutMs - r.inMs >= Ms(100))

\* C3 (amended): the inMs sent is clamp(anchor.inMs + deltaMs, 0,
\* anchor.outMs - 100) rounded to the nearest millisecond and never below 0;
\* for an anchor with outMs >= 100 it is exactly outMs - 100 when dragged
\* past that point and the trimmed clip keeps at least 100 ms.
C3_TrimLeftClampRounded ==
    TrimLeftSent(LAMBDA r, G :
       LET x == G.anchor.origInMs + GestureDelta(G)
       IN  /\ r.inMs = MathRound(Clamp(x, 0, G.anchor.origOutMs - Ms(100)))
           /\ r.inMs >= 0
           /\ r.outMs = Undefined
           /\ G.anchor.origOutMs >= Ms(100) =>
                 /\ (x >= G.anchor.origOutMs - Ms(100)
                       => r.inMs = G.anchor.origOutMs - Ms(100))
                 /\ G.anchor.origOutMs - r.inMs >= Ms(100))

\* A left trim dragged past outMs - 100 was sent with exactly outMs - 100.
C3_Witness ==
    \E i \in DOMAIN sent :
       /\ gestures[sent[i].g].mode = "trim-left"
       /\ gestures[sent[i].g].upX = Px(841) \div 10
       /\ gestures[sent[i].g].anchor.origOutMs = Ms(250)
       /\ sent[i].op = "trim" /\ sent[i].inMs = Ms(150)

\* The requests of the right-trim gestures satisfy P(request, gesture).
TrimRightSent(P(_, _)) ==
    \A i \in DOMAIN sent :
       LET r == sent[i]
           G == gestures[r.g]
       IN  G.mode = "trim-right" => P(r, G)

\* C4 (as stated): the outMs a trim-right gesture sends equals
\* max(anchor.inMs + 100, anchor.outMs + deltaMs); the request carries no
\* inMs, and no request of the gesture is a move or carries a start.
C4_TrimRightClamp ==
    TrimRightSent(LAMBDA r, G :
       /\ r.op = "trim" /\ r.inMs = Undefined /\ r.startMs = Undefined
       /\ r.outMs = Max(G.anchor.origInMs + Ms(100),
                        G.anchor.origOutMs + GestureDelta(G)))

\* C4 (amended): the outMs sent is max(anchor.inMs + 100, anchor.outMs +
\* deltaMs) rounded to the nearest millisecond (exactly inMs + 100 when
\* dragged below it); the request carries no inMs, and no request of the
\* gesture is a move or carries a start.
C4_TrimRightClampRounded ==
    TrimRightSent(LAMBDA r, G :
       /\ r.op = "trim" /\ r.inMs = Undefined /\ r.startMs = Undefined
       /\ r.outMs = MathRound(Max(G.anchor.origInMs + Ms(100),
                                  G.anchor.origOutMs + GestureDelta(G)))
       /\ (G.anchor.origOutMs + GestureDelta(G) <= G.anchor.origInMs + Ms(100)
             => r.outMs = G.anchor.origInMs + Ms(100)))

\* A right trim dragged below inMs + 100 was sent with exactly inMs + 100.
C4_Witness ==
    \E i \in DOMAIN sent :
       /\ gestures[sent[i].g].mode = "trim-right"
       /\ gestures[sent[i].g].upX = 0 - Px(60)
       /\ gestures[sent[i].g].anchor.origInMs = Ms(100)
       /\ sent[i].op = "trim" /\ sent[i].outMs = Ms(200)

\* C5: a gesture whose pointer-up is at the pointer-down position (a plain
\* click on a clip body or a trim handle) issues no mutation request.
C5_NoChangeNoRequest ==
    \A g \in DOMAIN gestures :
       (gestures[g].up /\ gestures[g].upX = 0) =>
          \A i \in DOMAIN sent : sent[i].g # g

\* The request a gesture of this mode exists to issue.
PrimaryOp(mode) == IF mode = "move" THEN "move" ELSE "trim"

\* C6: every completed gesture (pointer-down followed by pointer-up) has
\* issued its mutation request exactly once, whatever the interleaving with
\* the requests of earlier gestures on the same clip.
C6_RequestExactlyOnce ==
    \A g \in DOMAIN gestures :
       gestures[g].up =>
          Cardinality({i \in DOMAIN sent :
                         sent[i].g = g /\ sent[i].op = PrimaryOp(gestures[g].mode)}) = 1

\* What a tick has to leave, given how far the playhead advances.
TickResult(advanced(_)) ==
    \A e \in Elapsed :
       Tick(e) =>
          /\ IF playheadMs + e >= DurationMs
             THEN playheadMs' = DurationMs /\ ~isPlaying'
             ELSE /\ playheadMs' = advanced(playheadMs + e)
                  /\ playheadMs' >= playheadMs
                  /\ isPlaying'
          /\ playheadMs' <= DurationMs

\* C7 (as stated): a tick advances the playhead by the elapsed time; at or
\* past durationMs the playhead is set to durationMs and the play flag
\* cleared; after a tick playheadMs <= durationMs, and a tick short of the
\* end never decreases playheadMs.
C7_TickAdvance == [][TickResult(LAMBDA t : t)]_vars

\* C7 (amended): a tick short of the end sets the playhead to the advanced
\* value rounded to the nearest millisecond; the rest as stated.
C7_TickAdvanceRounded == [][TickResult(MathRound)]_vars

\* A tick of 499.5 ms has advanced the playhead by 500 ms, still playing.
C7_Witness ==
    /\ args = [op |-> "tick", from |-> Ms(4000), elapsed |-> Ms(499) + 1]
    /\ playheadMs = Ms(4500) /\ isPlaying /\ rafPending = 1

\* C8: findClipAtTime returns the first clip, in the order of the ids given,
\* whose interval [startMs, startMs + durationMs) contains the playhead, and
\* null if there is none; ids without a clip are skipped.
C8_FindClipAtTime ==
    args.applied =>
       LET ids   == args.trackClipIds
           cover == {i \in 1..Len(ids) :
                       /\ ids[i] \in DOMAIN args.clips
                       /\ args.clips[ids[i]].startMs <= args.playheadMs
                       /\ args.playheadMs < ClipEnd(args.clips[ids[i]])}
       IN  IF cover = {} THEN args.result = NULL
           ELSE \E i \in cover : /\ \A j \in cover : i <= j
                                  /\ args.result = ids[i]

\* At the end of v1, which v2 overlaps, behind an id without a clip: v2.
C8_Witness ==
    /\ args.applied
    /\ args.clips = ClipsA
    /\ args.trackClipIds = <<"gone", "v1", "v2", "v3">>
    /\ args.playheadMs = Ms(1280)
    /\ args.result = "v2"

\* No clip of the video track of project pf covers ms.
NoCover(pf, ms) ==
    \/ pf = None
    \/ ~pf.timeline.hasVideo
    \/ FindClipAtTime(pf.timeline.clips, pf.timeline.video, ms) = NULL

\* C9: after every synchronisation (a tick, a seek, a change of the playhead
\* or of the project while paused) the preview is black exactly when no
\* clip of the video track covers playheadMs, and when it is black the
\* active-clip reference and the media source are cleared.
C9_BlackIffNoCover ==
    [][(\/ playheadMs' # playheadMs
        \/ (~isPlaying' /\ projectFile' # projectFile))
         => /\ isBlack' <=> NoCover(projectFile', playheadMs')
            /\ isBlack' => (currentClipRef' = NULL /\ currentSrc' = NoSrc)]_vars

\* Some instant of [lo, hi) lies in the clip's interval: if any does, the
\* later of the two starts does.
SharesInstant(clip, lo, hi) ==
    \E t \in {lo, clip.startMs} :
       lo <= t /\ t < hi /\ clip.startMs <= t /\ t < ClipEnd(clip)

RangeLo == Min(args.startMs, args.endMs)
RangeHi == Max(args.startMs, args.endMs)

\* C10 (as stated): selectRange replaces the selection with exactly the
\* clips whose interval [startMs, startMs + durationMs) shares an instant
\* with [lo, hi), lo and hi the smaller and the larger argument.
C10_SelectRangeSharesInstant ==
    args.applied =>
       selectedClipIds = {c \in DOMAIN args.clips :
                            SharesInstant(args.clips[c], RangeLo, RangeHi)}

\* C10 (amended): as stated when the two arguments differ; when they are
\* equal the selection is the clips with startMs < t < startMs + durationMs.
C10_SelectRangeAmended ==
    args.applied =>
       selectedClipIds =
          IF args.startMs # args.endMs
          THEN {c \in DOMAIN args.clips :
                  SharesInstant(args.clips[c], RangeLo, RangeHi)}
          ELSE {c \in DOMAIN args.clips :
                  /\ args.clips[c].startMs < args.startMs
                  /\ args.startMs < ClipEnd(args.clips[c])}

\* The reversed range 5000..500 over the clips of the test replaced a
\* selection by v1 and a1; v2, which starts at 5000, is left out.
C10_Witness ==
    /\ args.applied
    /\ args.startMs = Ms(5000) /\ args.endMs = Ms(500)
    /\ args.clips = ClipsOfTest
    /\ selectedClipIds = {"v1", "a1"}


\* C11: the replace-style selection operations ignore the selection they
\* find: after selectClip(x) with x non-null the selection is {x}; after
\* selectClips(ids) it is exactly the ids of the array; after clearSelection,
\* selectClip(null) and selectClips([]) it is empty.
C11_ReplaceSelection ==
    /\ args.op = "selectClip" =>
          /\ args.id # NULL => selectedClipIds = {args.id}
          /\ args.id = NULL => selectedClipIds = {}
    /\ args.op = "selectClips" =>
          /\ \A id \in StoreIds :
                id \in selectedClipIds <=>
                   \E i \in 1..Len(args.ids) : args.ids[i] = id
          /\ selectedClipIds \subseteq StoreIds
          /\ args.ids = <<>> => selectedClipIds = {}
    /\ args.op = "clearSelection" => selectedClipIds = {}

C11_Witness ==
    /\ args.op = "selectClip" /\ args.id = "v2"
    /\ args.before = {"v1", "a1"}
    /\ selectedClipIds = {"v2"}

\* C12: toggleClip(id) flips the membership of id and of no other id, and a
\* second toggleClip(id) gives back the selection the first one found; a
\* click on a clip with Ctrl/Meta held leaves exactly what toggleClip leaves,
\* a plain click leaves the clicked clip as the only member.
C12_ToggleFlipsOne ==
    /\ [][\A id \in StoreIds : ToggleClip(id) =>
            /\ \A x \in ClipIds :
                  x \in selectedClipIds' <=>
                     IF x = id THEN x \notin selectedClipIds
                               ELSE x \in selectedClipIds
            /\ ToggleClipValue(selectedClipIds', id) = selectedClipIds]_vars
    /\ [][\A cid \in StoreIds, ctrl \in BOOLEAN :
            PointerDown(cid, "move", ctrl) =>
               selectedClipIds' =
                  IF ctrl
                  THEN (selectedClipIds \ {cid}) \cup ({cid} \ selectedClipIds)
                  ELSE {cid}]_vars

C12_Witness ==
    /\ args.op = "toggleClip" /\ args.id = "v1"
    /\ args.before = {"v1", "v2"}
    /\ selectedClipIds = {"v2"}
    /\ Len(gestures) = 2

\* The clips of the installed timeline that share an instant with the ms
\* interval of the marquee drawn from x0 to x1 at zoom z.
MarqueeLo(x0, x1, z) ==
    PixelsToMs(Max(0, Min(x0, x1) - Px(TRACK_LABEL_WIDTH)), z)
MarqueeHi(x0, x1, z) ==
    PixelsToMs(Max(x0, x1) - Px(TRACK_LABEL_WIDTH), z)
ClipsInMarquee(x0, x1, z) ==
    {cid \in DOMAIN Timeline.clips :
        Max(Timeline.clips[cid].startMs, MarqueeLo(x0, x1, z))
           < Min(ClipEnd(Timeline.clips[cid]), MarqueeHi(x0, x1, z))}

\* addClips(ids) leaves the selection it found united with the ids, and
\* applied again with the same ids leaves that selection.
AddClipsIsUnion ==
    [][\A ids \in IdArrays : AddClips(ids) =>
          /\ selectedClipIds' =
                selectedClipIds \cup {ids[i] : i \in 1..Len(ids)}
          /\ AddClipsValue(selectedClipIds', NewSet(ids)) = selectedClipIds']_vars

C14_NullGesture ==
    args.op = "marqueeUp" /\ Abs(args.to - args.from) < Px(MARQUEE_MIN_PX) =>
       selectedClipIds = args.began

\* The ids of the requests a delete loop has issued, in order.
RequestedIds(done) == [i \in 1..Len(done) |-> done[i].id]

DeleteLoops(cs) == {c \in cs : c.k.who = "deleteSelected"}

\* C15: Delete/Backspace with a non-empty selection empties the selection
\* with the first request, then requests the removal of every id that was
\* selected exactly once, one request at a time; a rejected removal is
\* followed by the remaining ones; with an empty selection no removal is
\* requested.
C15_DeleteSelected ==
    /\ [][HandleDeleteSelected =>
            /\ selectedClipIds' = {}
            /\ \E c \in DeleteLoops(calls') \ calls :
                  /\ DeleteLoops(calls') \ calls = {c}
                  /\ Len(c.k.ids) = Cardinality(selectedClipIds)
                  /\ {c.k.ids[i] : i \in 1..Len(c.k.ids)} = selectedClipIds
                  /\ Len(c.k.done) = 1]_vars
    /\ [](\A c \in DeleteLoops(calls) :
            /\ c.op = "timeline_remove_clip"
            /\ RequestedIds(c.k.done) \o c.k.rest = c.k.ids)
    /\ [][\A c \in DeleteLoops(calls) :
            HandleDeleteSelectedNext(c) =>
               IF c.k.rest = <<>>
               THEN DeleteLoops(calls') = DeleteLoops(calls) \ {c}
               ELSE \E n \in DeleteLoops(calls') :
                       /\ n.id = c.id
                       /\ Len(n.k.done) = Len(c.k.done) + 1]_vars
    /\ [][selectedClipIds = {} =>
            \A c \in DeleteLoops(calls') \ calls : Len(c.k.done) > 1]_vars

C15_Witness ==
    /\ selectedClipIds = {}
    /\ \E c \in DeleteLoops(calls) :
          /\ Len(c.k.ids) = 3 /\ c.k.rest = <<>>
          /\ ~c.k.done[1].ok /\ c.k.done[2].ok /\ c.k.done[3].ok

\* C16: a ruler click with no start pending, or with start and end both set,
\* sets a new start and clears the end; a click with a start pending and no
\* end commits the end and leaves the start; so the end is set only if the
\* start is set, and the pair is read as lo = min, hi = max.
C16_RangePicker ==
    /\ [][\A x \in RulerXs : HandleRulerClick(x) =>
            /\ args'.ms >= 0
            /\ IF rangeStartMs = NullMs \/ rangeEndMs # NullMs
               THEN rangeStartMs' = args'.ms /\ rangeEndMs' = NullMs
               ELSE rangeEndMs' = args'.ms /\ rangeStartMs' = rangeStartMs]_vars
    /\ [](rangeEndMs # NullMs => rangeStartMs # NullMs)
    /\ [](HasRange =>
            /\ RulerRangeLo <= RulerRangeHi
            /\ {RulerRangeLo, RulerRangeHi} = {rangeStartMs, rangeEndMs})

C16_Witness ==
    /\ args.op = "rulerClick"
    /\ args.before.start = Ms(1200) /\ args.before.end = NullMs
    /\ rangeStartMs = Ms(1200) /\ rangeEndMs = Ms(501)
    /\ RulerRangeLo = Ms(501) /\ RulerRangeHi = Ms(1200)

\* Snapshot s was taken before snapshot t when the backend only removes
\* clips: t lacks a clip s still holds.
TakenBefore(s, t) ==
    /\ DOMAIN t.timeline.clips \subseteq DOMAIN s.timeline.clips
    /\ DOMAIN t.timeline.clips # DOMAIN s.timeline.clips

\* C17: the response to an earlier re-fetch never replaces the snapshot a
\* later re-fetch installed: no snapshot installed by refreshProject was
\* taken before the one it replaces.
C17_SnapshotsInOrder ==
    [][\A c \in calls :
          RefreshProjectDone(c) /\ c.ok => ~TakenBefore(c.resp, projectFile)]_vars

\* The snapshot installed by this step is the response of a call that
\* resolved and is no longer awaited.
InstalledFromResponse ==
    \E c \in calls \ calls' :
       /\ c.ok /\ c.resp = projectFile'
       /\ c.op \in {"create_project", "open_project", "get_project"}

\* C18: no gesture, selection, playhead, zoom, scroll or playback operation
\* changes projectFile.timeline: a step changes the timeline only by
\* installing the response of the backend to create, open or a re-fetch, and
\* updateTask leaves the timeline and the assets as they are.
C18_TimelineOnlyReplaced ==
    /\ [][projectFile' # projectFile =>
            \/ InstalledFromResponse
            \/ /\ projectFile # None /\ projectFile' # None
               /\ projectFile'.timeline = projectFile.timeline]_vars
    /\ [][\A task \in TaskUpdates : UpdateTask(task) =>
            /\ projectFile'.timeline = projectFile.timeline
            /\ projectFile'.assets = projectFile.assets
            /\ projectFile'.tasks # projectFile.tasks \/ task \in
                  {projectFile.tasks[i] : i \in DOMAIN projectFile.tasks}]_vars

C18_Witness ==
    /\ projectFile # None /\ backend # None
    /\ Len(projectFile.tasks) = 1 /\ projectFile.tasks[1].state = "succeeded"
    /\ projectFile.timeline = StoredProject("B").timeline
    /\ backend.timeline # projectFile.timeline
    /\ Len(gestures) = 1 /\ gestures[1].up
    /\ zoomLevel = 200 /\ scrollLeftMs > 0 /\ playheadMs = Ms(5000)
    /\ selectedClipIds = {}

\* C19: when the move or trim request a gesture awaits is rejected, the
\* authoritative timeline is unchanged, the failure is surfaced to the user
\* (the error the application shows is set), and the clip's element is back
\* at the left and width of the authoritative timeline.
C19_RejectionRollsBack ==
    [][\A c \in calls :
          OnUpResume(c) /\ ~c.ok /\ Mounted(projectFile, c.k.clipId) =>
             /\ projectFile' = projectFile /\ backend' = backend
             /\ error' # NULL
             /\ elStyle'[c.k.clipId] =
                   [left  |-> LeftProp(Timeline.clips[c.k.clipId], zoomLevel),
                    width |-> WidthProp(Timeline.clips[c.k.clipId], zoomLevel)]]_vars


\* C20: togglePlay, play and pause change only isPlaying among the fields
\* of the view store (never playheadMs, the selection, the zoom or the
\* scroll offset) and leave the project alone; they resolve no clip: the
\* preview changes in such a step only when the flag goes from playing to
\* paused, which is the seek effect of the player.  After play the flag is
\* set and a second play changes nothing; after pause the flag is clear and
\* a second pause changes nothing; togglePlay applied to the state togglePlay
\* left gives the flag it had before.
C20_PlayFlagOnly ==
    /\ [](/\ args.op = "play" => isPlaying
          /\ args.op = "pause" => ~isPlaying
          /\ args.op = "togglePlay" =>
                /\ isPlaying = TogglePlayValue(args.before)
                /\ TogglePlayValue(isPlaying) = args.before)
    /\ [][(TogglePlay \/ Play \/ Pause) =>
             /\ UNCHANGED <<playheadMs, selectedClipIds, zoomLevel, scrollLeftMs,
                            projVars, rangeVars, subVars>>
             /\ (isPlaying' \/ ~isPlaying) =>
                   UNCHANGED <<currentClipRef, currentSrc, isBlack>>
             /\ (isPlaying' = isPlaying) =>
                   UNCHANGED <<bridgeVars, projVars, viewVars, gestVars,
                               marqueeOrigin, rangeVars, subVars, prevVars>>]_vars

\* togglePlay has paused a playback of an opened project in the middle of
\* a clip.
C20_Witness ==
    /\ args.op = "togglePlay" /\ args.before /\ ~isPlaying
    /\ projectFile # None /\ playheadMs > 0 /\ currentClipRef # NULL

\* C21: capture-current-frame issues exactly one enqueue request when a clip
\* of the video track covers the playhead, with the asset of that clip and
\* tMs = playheadMs - clip.startMs + clip.inMs, which lies in
\* [clip.inMs, clip.outMs); it issues none when no clip covers the
\* playhead; the step changes nothing else, and the settlement of the
\* request, resolved or rejected, changes nothing but the set of calls in
\* flight.
C21_CaptureFrame ==
    /\ [][HandleCaptureFrame =>
            /\ UNCHANGED <<backend, pendingEvents, projVars, viewVars, gestVars,
                           marqueeOrigin, rangeVars, subVars, prevVars>>
            /\ IF NoCover(projectFile, playheadMs)
               THEN calls' = calls
               ELSE LET clip == Timeline.clips[FindClipAtTime(Timeline.clips,
                                                Timeline.video, playheadMs)]
                    IN  \E c \in calls' \ calls :
                          /\ calls' = calls \cup {c}
                          /\ c.op = "task_enqueue" /\ c.k.kind = "capture_frame"
                          /\ c.k.assetId = clip.assetId
                          /\ c.k.tMs = playheadMs - clip.startMs + clip.inMs
                          /\ clip.durationMs = clip.outMs - clip.inMs =>
                                (c.k.tMs >= clip.inMs /\ c.k.tMs < clip.outMs)]_vars
    /\ [][\A c \in calls : HandleCaptureFrameDone(c) =>
            UNCHANGED <<backend, pendingEvents, projVars, viewVars, gestVars,
                        marqueeOrigin, rangeVars, subVars, prevVars>>]_vars

\* A frame of v2, whose trim starts at 100 ms, was asked for at the playhead
\* 1300 ms: the request in flight carries as2 and tMs = 200.
C21_Witness ==
    /\ args.op = "captureFrame" /\ args.clip = "v2" /\ playheadMs = Ms(1300)
    /\ \E c \in calls : /\ c.op = "task_enqueue"
                        /\ c.k.assetId = "as2" /\ c.k.tMs = Ms(200)


\* The move gestures of the scenario of C22: the clip anchored at 0, zoom
\* 100, released where the unsnapped start is 6950 ms.
ScenarioGesture(G) ==
    /\ G.clipId = "b1" /\ G.mode = "move" /\ G.zoom = 100
    /\ G.anchor.origStartMs = 0 /\ G.up /\ GestureDelta(G) = Ms(6950)
    /\ \E j \in DOMAIN G.targets : G.targets[j] = Ms(7000)

\* C22: with the clip [0, 5000), a marker at 7000 and zoom 100, a move whose
\* unsnapped start is 6950 ms sends a move request with startMs = 7000, and
\* when the backend accepts it the clip's startMs is 7000.
C22_ScenarioSnaps ==
    /\ [](\A i \in DOMAIN sent :
            ScenarioGesture(gestures[sent[i].g]) =>
               sent[i].op = "move" /\ sent[i].startMs = Ms(7000))
    /\ [][(/\ listening # None /\ listening' = None
           /\ ScenarioGesture(gestures'[listening.g])
           /\ \E c \in calls' \ calls : c.ok)
          => backend'.timeline.clips["b1"].startMs = Ms(7000)]_vars

\* The scenario's gesture was released and its request accepted: the
\* backend holds the clip at 7000 ms.
C22_Witness ==
    /\ \E i \in DOMAIN sent : ScenarioGesture(gestures[sent[i].g])
    /\ Len(sent) = 1 /\ \E c \in calls : c.ok
    /\ backend.timeline.clips["b1"].startMs = Ms(7000)

RECURSIVE NumberOf(_)
NumberOf(s) ==
    IF s = <<>> THEN 0
    ELSE 10 * NumberOf(SubSeq(s, 1, Len(s) - 1))
         + (CHOOSE d \in 0..9 : DigitChars[d + 1] = s[Len(s)])

\* text reads MM:SS.cc for the whole number r of milliseconds: digits, a
\* colon, two digits, a point, two digits; MM = floor(r / 60000) written
\* with at least two digits and no more than it needs, SS = floor(r / 1000)
\* mod 60, cc = floor((r mod 1000) / 10).
ReadsAs(text, r) ==
    LET n  == Len(text)
        mm == SubSeq(text, 1, n - 6)
        ss == SubSeq(text, n - 4, n - 3)
        cc == SubSeq(text, n - 1, n)
        isDigits(s) == \A i \in DOMAIN s : \E d \in 1..10 : DigitChars[d] = s[i]
    IN  /\ n >= 8 /\ text[n - 5] = ":" /\ text[n - 2] = "."
        /\ isDigits(mm) /\ isDigits(ss) /\ isDigits(cc)
        /\ (Len(mm) > 2 => mm[1] # "0")
        /\ NumberOf(mm) = r \div 60000
        /\ NumberOf(ss) = (r \div 1000) % 60
        /\ NumberOf(cc) = (r % 1000) \div 10

\* C24: for every non-negative ms, formatMs(ms) is MM:SS.cc of ms rounded
\* to the nearest integer (a half rounding up), each field zero-padded to
\* two digits; 0 gives 00:00.00, 1000 gives 00:01.00, 90000 gives 01:30.00,
\* 1500 gives 00:01.50 and 1234 gives 00:01.23.
C24_FormatMs ==
    args.applied =>
       /\ ReadsAs(args.text, (args.ms + 1) \div 2)
       /\ args.ms = Ms(0)     => args.text = <<"0","0",":","0","0",".","0","0">>
       /\ args.ms = Ms(1000)  => args.text = <<"0","0",":","0","1",".","0","0">>
       /\ args.ms = Ms(90000) => args.text = <<"0","1",":","3","0",".","0","0">>
       /\ args.ms = Ms(1500)  => args.text = <<"0","0",":","0","1",".","5","0">>
       /\ args.ms = Ms(1234)  => args.text = <<"0","0",":","0","1",".","2","3">>

\* 59999.5 ms was formatted: it rounds up into the next minute.
C24_Witness ==
    /\ args.applied /\ args.ms = Ms(59999) + 1
    /\ args.text = <<"0","1",":","0","0",".","0","0">>

\* The threshold of a snap at this zoom, and the grid lines.
SnapThreshold(zoom) == PixelsToMs(Px(SNAP_THRESHOLD_PX), zoom)
IsGridLine(t) == t % Ms(SNAP_GRID_MS) = 0
GridLines == {Ms(SNAP_GRID_MS) * k : k \in 0..80}

\* g is a grid line nearest to ms.
NearestGridLine(g, ms) ==
    g \in GridLines /\ \A h \in GridLines : Abs(g - ms) <= Abs(h - ms)

GridWithin(ms, zoom) ==
    \E g \in GridLines : Abs(g - ms) <= SnapThreshold(zoom)
TargetWithin(ms, zoom, targets) ==
    \E j \in DOMAIN targets : Abs(targets[j] - ms) <= SnapThreshold(zoom)

\* C25: snap(ms) is the nearest grid line whenever that line is within the
\* threshold pixelsToMs(8, zoom) of ms, also when a target is within the
\* threshold or nearer; it is ms when neither a grid line nor a target is
\* within the threshold; and in every case it is within the threshold of ms.
C25_GridFirst ==
    args.applied =>
       /\ GridWithin(args.ms, args.zoom) => NearestGridLine(args.result, args.ms)
       /\ (~GridWithin(args.ms, args.zoom)
             /\ ~TargetWithin(args.ms, args.zoom, args.targets)) => args.result = args.ms
       /\ Abs(args.result - args.ms) <= SnapThreshold(args.zoom)

\* 1045 ms at zoom 100 with a target at 1050: the grid line at 1000, 45 ms
\* away, was returned and not the target 5 ms away.
C25_Witness ==
    /\ args.applied /\ args.ms = Ms(1045) /\ args.zoom = 100
    /\ args.targets = <<Ms(1050)>> /\ args.result = Ms(1000)

\* C26: when the nearest grid line is farther from ms than the threshold,
\* snap(ms) is the target nearest to ms among the targets within the
\* threshold, whatever the order of the target list.
C26_NearestTarget ==
    (args.applied /\ ~GridWithin(args.ms, args.zoom)
       /\ TargetWithin(args.ms, args.zoom, args.targets)) =>
       /\ \E j \in DOMAIN args.targets : args.result = args.targets[j]
       /\ \A j \in DOMAIN args.targets :
             Abs(args.result - args.ms) <= Abs(args.targets[j] - args.ms)

\* The targets of every clip but cid, in key order, then the markers.
OtherTargets(pf, cid) ==
    ClipTargets(pf.timeline.clips, SelectSeq(pf.timeline.keys, LAMBDA k : k # cid))
       \o pf.timeline.markers

\* C27: the snap targets a move gesture works with are the start and the
\* end of every other clip and the markers; the dragged clip's own start
\* and end are not among them.
C27_OwnEdgesNotTargets ==
    [][(listening = None /\ listening' # None
          /\ gestures'[listening'.g].mode = "move")
       => listening'.targets = OtherTargets(projectFile, listening'.clipId)]_vars

\* C28: every move request issued carries newStartMs >= 0, the request of a
\* move gesture and the follow-up move of a left trim alike.
C28_MoveStartNonNegative ==
    \A i \in DOMAIN sent : sent[i].op = "move" => sent[i].startMs >= 0

\* The step in which onUp, resumed after the left trim of gesture g
\* resolved, issues the follow-up move and the backend accepts it.
FollowUpApplied(c) ==
    /\ OnUpResume(c) /\ c.k.stage = "trim-left" /\ c.ok
    /\ \E n \in calls' : n.id = c.id /\ n.k.stage = "follow" /\ n.ok

AnchorEnd(d) == d.origStartMs + (d.origOutMs - d.origInMs)

C30_TrimThenMove ==
    /\ [](\A i \in DOMAIN sent :
            (gestures[sent[i].g].mode = "trim-left" /\ sent[i].op = "move") =>
               \E j \in 1..(i - 1) : sent[j].g = sent[i].g /\ sent[j].op = "trim")
    /\ [][\A c \in calls :
            (OnUpResume(c) /\ sent' # sent) =>
               /\ c.k.stage = "trim-left" /\ c.ok
               /\ sent'[Len(sent')].op = "move"
               /\ sent'[Len(sent')].startMs # gestures[c.k.g].anchor.origStartMs]_vars
    /\ [][\A c \in calls :
            (OnUpResume(c) /\ c.k.stage = "trim-left" /\ ~c.ok) => sent' = sent]_vars

-----------------------------------------------------------------------------
(* A gesture and what arrives while it is in flight                        *)

\* A move of v1 and then a gesture on v2 of project A, with zoom changes,
\* snapshots and task events free to arrive between pointer-down and
\* pointer-up.  Released 9 px to the right at zoom 200, v2 is 45 ms past a
\* grid line (out of the 40 ms threshold) and 35 ms before the end of v1.
InitAnchor == InitOpened("A")

AnchorXs == {Px(9), 0 - Px(60)}

NextAnchor ==
    \/ \E z \in {100, 200} : SetZoom(z)
    \/ gestures = <<>> /\ PointerDown("v1", "move", FALSE)
    \/ \E mode \in Modes :
          Len(gestures) = 1 /\ gestures[1].up /\ PointerDown("v2", mode, FALSE)
    \/ \E x \in AnchorXs : PointerMove(x)
    \/ \E x \in AnchorXs : PointerUp(x)
    \/ \E c \in calls : OnUpResume(c)
    \/ RefreshProject
    \/ \E c \in calls : RefreshProjectDone(c)
    \/ UpdateTask([taskId |-> "t1", state |-> "running"])

SpecAnchor == InitAnchor /\ [][NextAnchor]_vars

\* The requests of gesture g, in the order they were issued.
RequestsOf(g) == SelectSeq(sent, LAMBDA r : r.g = g)

\* The value a gesture G holds for the pointer x pixels from the
\* pointer-down position, from what was captured at pointer-down alone.
AnchoredValue(G, x) ==
    LET deltaMs == PixelsToMs(x, G.zoom)
    IN  IF G.mode = "move" THEN MoveStart(G.anchor, deltaMs, G.zoom, G.targets)
        ELSE IF G.mode = "trim-left" THEN TrimLeftIn(G.anchor, deltaMs)
        ELSE TrimRightOut(G.anchor, deltaMs)

\* C31: the first request of a gesture carries the rounded value computed
\* from the anchor, the zoom and the snap targets captured at pointer-down
\* and the pointer displacement; the follow-up move of a left trim carries
\* the anchor's start shifted by the trimmed amount; and a pointer-move
\* shows the value computed from the same captures, whatever snapshot,
\* zoom change or task event arrived since pointer-down.
C31_AnchoredGesture ==
    /\ [](\A g \in DOMAIN gestures :
            LET G  == gestures[g]
                rs == RequestsOf(g)
                v  == MathRound(AnchoredValue(G, G.upX))
            IN  /\ G.up => Len(rs) >= 1
                /\ Len(rs) >= 1 =>
                      /\ G.up /\ rs[1].clipId = G.clipId
                      /\ rs[1] = IF G.mode = "move"
                                 THEN Request(g, "move", G.clipId, v, Undefined, Undefined)
                                 ELSE IF G.mode = "trim-left"
                                 THEN Request(g, "trim", G.clipId, Undefined, v, Undefined)
                                 ELSE Request(g, "trim", G.clipId, Undefined, Undefined, v)
                /\ Len(rs) >= 2 =>
                      /\ G.mode = "trim-left" /\ Len(rs) = 2
                      /\ rs[2] = Request(g, "move", G.clipId,
                                         MathRound(G.anchor.origStartMs
                                                     + (v - G.anchor.origInMs)),
                                         Undefined, Undefined))
    /\ [][\A x \in AnchorXs :
            PointerMove(x) =>
               LET G   == gestures[listening.g]
                   cid == G.clipId
                   v   == AnchoredValue(G, x)
               IN  elStyle'[cid] =
                     IF G.mode = "move"
                     THEN [elStyle[cid] EXCEPT !.left = MsToPixels(v, G.zoom)]
                     ELSE IF G.mode = "trim-left"
                     THEN [left  |-> MsToPixels(G.anchor.origStartMs
                                                  + (v - G.anchor.origInMs), G.zoom),
                           width |-> MsToPixels(G.anchor.origOutMs - v, G.zoom)]
                     ELSE [elStyle[cid] EXCEPT
                             !.width = MsToPixels(v - G.anchor.origInMs, G.zoom)]]_vars

\* The move of v2 was committed from the zoom and the snap targets of its
\* pointer-down, after the zoom was changed and a snapshot with v1 moved
\* and a task event arrived: with the zoom and the targets as they are now
\* the request would carry another start.
C31_Witness ==
    /\ Len(gestures) = 2 /\ gestures[2].up /\ gestures[2].mode = "move"
    /\ gestures[2].zoom # zoomLevel
    /\ gestures[2].targets # SnapTargets(projectFile)
    /\ Len(projectFile.tasks) = 1
    /\ Len(RequestsOf(2)) = 1
    /\ RequestsOf(2)[1].startMs
          # MathRound(MoveStart(gestures[2].anchor,
                                PixelsToMs(gestures[2].upX, zoomLevel),
                                zoomLevel, SnapTargets(projectFile)))

\* A gesture on a clip of project A that Delete removes while the pointer
\* is down, every "project:updated" event answered by a re-fetch.
InitUnmount == InitOpened("A")

NextUnmount ==
    \/ \E cid \in {"v1", "v2"}, mode \in Modes :
          gestures = <<>> /\ PointerDown(cid, mode, FALSE)
    \/ \E x \in AnchorXs : PointerMove(x)
    \/ \E x \in AnchorXs : PointerUp(x)
    \/ \E c \in calls : OnUpResume(c)
    \/ HandleDeleteSelected
    \/ \E c \in calls : HandleDeleteSelectedNext(c)
    \/ RefreshProject
    \/ \E c \in calls : RefreshProjectDone(c)

SpecUnmount == InitUnmount /\ [][NextUnmount]_vars

\* C32: once the clip block of a gesture in flight is unmounted its
\* document listeners are detached, and a pointer-up after the unmount
\* issues no request for the gesture.
C32_DetachedOnUnmount ==
    /\ [](listening # None => Mounted(projectFile, listening.clipId))
    /\ [][\A x \in AnchorXs :
            (PointerUp(x) /\ ~Mounted(projectFile, listening.clipId)) =>
               sent' = sent]_vars

-----------------------------------------------------------------------------
(* Task events merged into the project                                     *)

\* Task events of three tasks in three states, delivered in any order,
\* with and without a project loaded.
TaskEvents == [taskId : {"t1", "t2", "t3"}, state : {"queued", "running", "succeeded"}]

InitTasks == Init \/ InitOpened("B")

NextTasks == \E task \in TaskEvents : UpdateTask(task)

SpecTasks == InitTasks /\ [][NextTasks]_vars

TaskIds(tasks) == {tasks[i].taskId : i \in DOMAIN tasks}

\* C38: updateTask(task) replaces the task with the same id where it
\* stands, or appends the task when no task has its id; every other task
\* and every other part of the project stay as they were; taskById then
\* holds the position of every task id; the same update applied again
\* changes nothing; and without a project nothing changes.
C38_UpdateTaskMerges ==
    [][\A task \in TaskEvents :
          UpdateTask(task) =>
             IF projectFile = None THEN UNCHANGED vars
             ELSE LET old == projectFile.tasks
                      new == projectFile'.tasks
                      ix  == projectFile'.indexes.taskById
                  IN  /\ IF task.taskId \in TaskIds(old)
                         THEN /\ Len(new) = Len(old)
                              /\ \A i \in DOMAIN old :
                                    new[i] = IF old[i].taskId = task.taskId
                                             THEN task ELSE old[i]
                         ELSE new = Append(old, task)
                      /\ DOMAIN ix = TaskIds(new)
                      /\ \A id \in TaskIds(new) :
                            /\ new[ix[id]].taskId = id
                            /\ \A i \in DOMAIN new : new[i].taskId = id => i = ix[id]
                      /\ projectFile'.timeline = projectFile.timeline
                      /\ projectFile'.assets = projectFile.assets
                      /\ UpdateTaskValue(projectFile', task) = projectFile'
                      /\ UNCHANGED <<backend, projectDir, projectJsonPath, viewVars>>]_vars

\* Three tasks merged one after the other, t1 in its last state: each
\* stands where it was appended, at the position taskById gives.
C38_Witness ==
    /\ projectFile # None
    /\ projectFile.tasks = <<[taskId |-> "t1", state |-> "succeeded"],
                             [taskId |-> "t2", state |-> "running"],
                             [taskId |-> "t3", state |-> "queued"]>>
    /\ projectFile.indexes.taskById = [id \in {"t1", "t2", "t3"} |->
                                         IF id = "t1" THEN 1 ELSE IF id = "t2" THEN 2 ELSE 3]


-----------------------------------------------------------------------------
(* The view store's numbers                                                *)

\* Times handed to setPlayhead and setScroll: negative, fractional (half
\* milliseconds) and whole.
ViewTimes == {0 - Ms(5), 0 - 3, 0 - 1, 1, Ms(3) + 1, Ms(7)}

\* A step of one of the selection operations of the store.
SelectionOp ==
    \/ \E id \in StoreIds \cup {NULL} : SelectClip(id)
    \/ \E id \in StoreIds : ToggleClip(id)
    \/ \E ids \in IdArrays : SelectClips(ids)
    \/ \E ids \in IdArrays : AddClips(ids)
    \/ ClearSelection

InitViewStore == Init

NextViewStore ==
    \/ \E ms \in ViewTimes : SetPlayhead(ms)
    \/ \E ms \in ViewTimes : SetScrollTo(ms)
    \/ \E z \in ZOOM_LEVELS : SetZoom(z)
    \/ TogglePlay
    \/ \E id \in {"v1", NULL} : SelectClip(id)
    \/ \E id \in {"v1", "v2"} : ToggleClip(id)
    \/ \E ids \in {<<>>, <<"v2", "a1">>} : SelectClips(ids)
    \/ \E ids \in {<<"a1", "v1", "v2">>} : AddClips(ids)
    \/ ClearSelection

SpecViewStore == InitViewStore /\ [][NextViewStore]_vars

\* C40: playheadMs is a whole number of milliseconds and never negative,
\* scrollLeftMs is never negative; setPlayhead leaves 0 for a negative
\* argument and otherwise the whole millisecond nearest to its argument,
\* setScroll leaves 0 for a negative argument and otherwise its argument;
\* and a selection operation leaves playheadMs, isPlaying, zoomLevel and
\* scrollLeftMs as they are.
C40_ViewStoreNumbers ==
    /\ [](playheadMs >= 0 /\ playheadMs % Ms(1) = 0 /\ scrollLeftMs >= 0)
    /\ [][\A ms \in ViewTimes :
            SetPlayhead(ms) =>
               /\ ms < 0 => playheadMs' = 0
               /\ ms >= 0 => (playheadMs' - ms \in {0, 1} \/ ms - playheadMs' = 0)]_vars
    /\ [][\A ms \in ViewTimes :
            SetScrollTo(ms) => scrollLeftMs' = IF ms < 0 THEN 0 ELSE ms]_vars
    /\ [][SelectionOp =>
            UNCHANGED <<playheadMs, isPlaying, zoomLevel, scrollLeftMs>>]_vars

\* Playing at zoom 200 with two clips selected, after setPlayhead(3.5)
\* left 4 ms and setScroll(0.5) left 0.5 ms.
C40_Witness ==
    /\ playheadMs = Ms(4) /\ scrollLeftMs = 1
    /\ isPlaying /\ zoomLevel = 200
    /\ selectedClipIds = {"v2", "a1"}
    /\ args.op = "selectClips"

-----------------------------------------------------------------------------
(* Rejected project operations                                             *)

\* The step in which createProject, openProject, saveProject or
\* importAssets resumes from the call c.
ProjectOpDone(c) ==
    \/ CreateProjectDone(c)
    \/ OpenProjectDone(c)
    \/ SaveOrImportCommandDone(c)
    \/ SaveOrImportGetDone(c)

\* C39: createProject, openProject, saveProject or importAssets resuming
\* from a rejected call leaves projectFile, projectDir and projectJsonPath
\* as they are, sets error and clears loading; refreshProject resuming
\* from a rejected call changes nothing in the stores; and while no
\* project is loaded no saveProject or importAssets call is issued.
C39_RejectionsKeepProject ==
    /\ [][\A c \in calls :
            (ProjectOpDone(c) /\ ~c.ok) =>
               /\ UNCHANGED <<projectFile, projectDir, projectJsonPath>>
               /\ error' # NULL /\ error' = "Error"
               /\ loading' = FALSE]_vars
    /\ [][\A c \in calls :
            (RefreshProjectDone(c) /\ ~c.ok) =>
               UNCHANGED <<backend, pendingEvents, projVars, viewVars, gestVars,
                           marqueeOrigin, prevVars>>]_vars
    /\ [][projectFile = None =>
            \A c \in calls' \ calls :
               c.k.who \notin {"saveProject", "importAssets"}]_vars

\* With project B open, a later operation was rejected: the project, its
\* directory and its path are those of B, error is set, loading is clear.
C39_Witness ==
    /\ calls = {} /\ error = "Error" /\ loading = FALSE
    /\ projectFile = StoredProject("B") /\ projectDir = "B"
    /\ projectJsonPath = JsonPathOf("B")

-----------------------------------------------------------------------------
(* The event subscriptions                                                 *)

\* Calls of initEventSubscriptions() from the freshly loaded module, each
\* free to start while the ones before await listen(), and events emitted
\* at any time.
InitSubs ==
    /\ backend = None /\ calls = {} /\ pendingEvents = 0
    /\ projectFile = None /\ projectDir = NULL /\ projectJsonPath = NoPath
    /\ selectedAssetId = NULL /\ isDirty = FALSE /\ loading = FALSE /\ error = NULL
    /\ InitView /\ InitWidgets
    /\ subs = Unsubscribed
    /\ dragState = [c \in ClipIds |-> None]
    /\ elStyle = [c \in ClipIds |-> None]
    /\ args = NoArgs

NextSubs ==
    \/ InitEventSubscriptions
    \/ \E c \in subs.inits : InitEventSubscriptionsTask(c)
    \/ \E c \in subs.inits : InitEventSubscriptionsProject(c)
    \/ \E kind \in {TASK_UPDATED, PROJECT_UPDATED} : BackendEvent(kind)

SpecSubs == InitSubs /\ [][NextSubs]_vars

\* C37: whenever every initEventSubscriptions() call made so far has
\* returned, exactly one "task:updated" listener and one "project:updated"
\* listener are registered, and an event emitted then is handled once.
C37_OneListenerEach ==
    (subs.made >= 1 /\ subs.inits = {}) =>
       /\ Cardinality(ListenersOf(TASK_UPDATED)) = 1
       /\ Cardinality(ListenersOf(PROJECT_UPDATED)) = 1
       /\ subs.handled # None => subs.handled.times = 1

-----------------------------------------------------------------------------
(* The source of the preview surface                                       *)

\* The asset a media URL names, and whether it names the proxy variant.
UrlAsset(url)   == url[1]
UrlIsProxy(url) == url[2]

\* C34: a step that leaves another clip active than before leaves the
\* source at the URL of that clip's asset, the proxy variant exactly when
\* the asset has a proxy; a step that leaves the same clip active leaves
\* the source as it was; and whenever a clip of the project is active, the
\* source names that clip's asset.
C34_SourceFollowsClip ==
    /\ [][(currentClipRef' # NULL /\ currentClipRef' # currentClipRef) =>
            LET a == projectFile'.timeline.clips[currentClipRef'].assetId
            IN  /\ currentSrc' # NoSrc
                /\ UrlAsset(currentSrc') = a
                /\ UrlIsProxy(currentSrc') = projectFile'.assets[a].hasProxy]_vars
    /\ [][(currentClipRef' # NULL /\ currentClipRef' = currentClipRef) =>
            currentSrc' = currentSrc]_vars
    /\ [](\/ currentClipRef = NULL
          \/ projectFile = None
          \/ currentClipRef \notin DOMAIN projectFile.timeline.clips
          \/ /\ currentSrc # NoSrc
             /\ UrlAsset(currentSrc)
                  = projectFile.timeline.clips[currentClipRef].assetId)

\* Playing project A, a tick moved the playhead from clip v1 into clip v2:
\* the source was switched from the proxy of as1 to the original of as2.
C34_Witness ==
    /\ args.op = "tick" /\ isPlaying
    /\ projectFile = StoredProject("A")
    /\ currentClipRef = "v2" /\ ~isBlack
    /\ UrlAsset(currentSrc) = "as2" /\ ~UrlIsProxy(currentSrc)

-----------------------------------------------------------------------------
(* Playback to the end of a fixed timeline                                 *)

\* Elapsed times of a frame: 0 stands for every elapsed time under half a
\* millisecond, which Math.round(playheadMs + deltaMs) gives back as
\* playheadMs, playheadMs and durationMs being whole milliseconds.
ElapsedLive == {0, Ms(499) + 1, Ms(1000)}

InitLive == Init \/ InitOpened("A") \/ InitOpened("B")

NextLive ==
    \/ TogglePlay
    \/ Play
    \/ Pause
    \/ \E e \in ElapsedLive : TickFrame(e)

\* The browser keeps running requested animation frames.
SpecLive ==
    InitLive /\ [][NextLive]_vars /\ WF_vars(\E e \in ElapsedLive : TickFrame(e))

\* What the tick that ends playback leaves, and the first tick on an empty
\* timeline.
EndsAtDuration ==
    [][\A e \in ElapsedLive :
          TickFrame(e) =>
             /\ (~isPlaying') => playheadMs' = DurationMs
             /\ (DurationMs = 0) => (~isPlaying' /\ playheadMs' = 0)]_vars

\* C35 (as stated): with a fixed durationMs and ticks of positive elapsed
\* time, playback that was started eventually clears the play flag, by a
\* pause or by a tick that leaves playheadMs = durationMs; on an empty
\* timeline the first tick stops it with playheadMs = 0.
C35_PlaybackEnds ==
    /\ isPlaying ~> ~isPlaying
    /\ EndsAtDuration

\* C35 (amended): the same, when every tick reports an elapsed time of at
\* least half a millisecond.
C35_PlaybackEndsHalfMs ==
    /\ [](args.op = "tick" => args.elapsed > 0) => (isPlaying ~> ~isPlaying)
    /\ EndsAtDuration

\* Project A has been played from 0 to its end without a pause: the last
\* tick left the playhead at durationMs with the play flag cleared.
C35_Witness ==
    /\ args.op = "tick" /\ args.from + args.elapsed >= DurationMs
    /\ projectFile = StoredProject("A") /\ DurationMs > 0
    /\ playheadMs = DurationMs /\ ~isPlaying /\ rafPending = 0

-----------------------------------------------------------------------------
(* The playback loop's animation frames                                    *)

C36_OnePendingTick ==
    /\ [](rafPending <= 1)
    /\ [](isPlaying => (rafPending = 1 /\ rafLive))
    /\ [][(isPlaying /\ isPlaying' /\ projectFile' # projectFile) =>
            rafPending' = 1]_vars

\* The timeline was replaced by a shorter one while playing, past the new
\* end: the loop was restarted and one frame is requested.
C36_Witness ==
    /\ isPlaying /\ projectFile # None /\ playheadMs > DurationMs
    /\ rafPending = 1 /\ rafLive
====
